---- MODULE Spec2Model ----
(***************************************************************************)
(* A model of the constrained multiple-shooting iLQR solver                *)
(* (class IterativeLQR): the line search with its merit function, the      *)
(* stopping test, the forward passes, the backward pass with its           *)
(* constraint-to-go, its bound constraints and its regularization retry,   *)
(* the cost setters and the augmented Lagrangian update; and of the        *)
(* iteration of the SQP solver (class SQPGaussNewton).                     *)
(*                                                                         *)
(* Numbers.  The solver computes in double precision; the model computes   *)
(* exactly, over integers, with these units:                               *)
(*   - cost, merit, merit_der, defect_norm, constraint_violation: 1e-9;    *)
(*   - states, inputs, step_length: one common unit (ratios are unit-free) *)
(*   - alpha: 2^-10, so 1.0 is AlphaOne;                                   *)
(*   - multipliers (s, glam, Gu) and merit weights mu_f, mu_c: plain       *)
(*     integers.                                                           *)
(* Rounding is not modelled.  The state and input dimensions are nx = 1    *)
(* and nu = 1, so a column of a trajectory is one integer.                 *)
(***************************************************************************)
EXTENDS Integers, Sequences, FiniteSets, TLC

\* the number of shooting intervals _N
NStages == 2

Stages == 0 .. (NStages - 1)
Nodes == 0 .. NStages

VARIABLES
    pc,        \* position of the running operation
    ret,       \* return value of the last operation that returns one
    xtrj,      \* _xtrj: column k of the state trajectory, k in 0..N
    utrj,      \* _utrj: column k of the input trajectory, k in 0..N-1
    fp_res,    \* *_fp_res: the forward pass result
    ls,        \* the local variables of line_search
    reports,   \* the invocations of report_result so far, oldest first
    last_report, \* what the latest report_result call handed to the callback
    n_fp,      \* the number of forward passes run by this line_search
    dyn,       \* _dyn[i]: A, B and the defect d of stage i
    bp_res,    \* _bp_res[i]: the backward pass result of stage i
    tmp,       \* _tmp[i]: the workspace of stage i
    value,     \* _value[k]: the value function of node k
    hxx_reg,   \* _hxx_reg, on the scale of RegOne
    opt,       \* the options: _hxx_reg_base, _constraint_violation_threshold,
               \* _kkt_decomp_type, _huu_reg
    ctg,       \* *_constraint_to_go: its _dim rows, first row first
    constraint, \* _constraint[k]: the linearized constraint of node k
    x_lb,      \* _x_lb: column k
    x_ub,      \* _x_ub: column k
    u_lb,      \* _u_lb: column k
    u_ub,      \* _u_ub: column k
    kkt_need,  \* the least hxx_reg that makes the KKT solution of stage i finite
    bp_i,      \* the loop variable i of backward_pass
    warned,    \* backward_pass has printed its infeasibility warning
    hc,        \* the rows of the locals Cinf and hinf of handle_constraints,
               \* from the stage that computes them to the next step of
               \* backward_pass; << >> when there are none
    cost_fn,   \* _cost[k]: the cost function l that node k holds
    call,      \* the latest call of a setter: its name and its argument
    exc,       \* the exception that the latest call has thrown, or "none"
    sqp,       \* the data members of an SQPGaussNewton solver, and its loop variable k
    al         \* the data members of the augmented Lagrangian of the bounds, and
               \* the columns that the latest auglag_update has accessed

\* the variables of the line search and of the stopping test
ls_vars == <<ret, fp_res, ls, reports, last_report, n_fp>>

\* the variables that only the backward pass reads or writes
bp_vars == <<hxx_reg, opt, ctg, constraint, x_lb, x_ub, u_lb, u_ub, kkt_need, bp_i,
             warned, hc>>

\* the variables of the cost setters
cost_vars == <<cost_fn, call, exc>>

vars == <<pc, xtrj, utrj, dyn, bp_res, tmp, value, ls_vars, bp_vars, cost_vars, sqp, al>>

Abs(x) == IF x < 0 THEN -x ELSE x

Max(a, b) == IF a >= b THEN a ELSE b

RECURSIVE SumTo(_, _)
\* f[0] + ... + f[n]; 0 when n < 0
SumTo(f, n) == IF n < 0 THEN 0 ELSE f[n] + SumTo(f, n - 1)

RECURSIVE MaxTo(_, _)
\* max(0, f[0], ..., f[n])
MaxTo(f, n) == IF n < 0 THEN 0 ELSE Max(f[n], MaxTo(f, n - 1))

(***************************************************************************)
(* The constants of line_search and should_stop.                           *)
(***************************************************************************)
\* alpha = 1.0, in units of 2^-10
AlphaOne == 1024
\* alpha_min = 0.001 = 1 / AlphaMinDen
AlphaMinDen == 1000
\* step_reduction_factor = 0.5 = 1 / StepReductionDen
StepReductionDen == 2
\* eta = 1e-4 = 1 / EtaDen
EtaDen == 10000
\* merit_safety_factor
MeritSafetyFactor == 2
\* the feasibility tolerance 1e-6 of should_stop, in units of 1e-9
FeasTol == 1000
\* the ratio tolerance 1e-9 = 1 / RatioDen of should_stop
RatioDen == 1000000000

(***************************************************************************)
(* should_stop                                                             *)
(***************************************************************************)
\* a / b > -1e-9 in IEEE arithmetic: a / 0 is +inf, -inf or NaN, and a
\* comparison with NaN is false
QuotientAboveMinusTol(a, b) ==
    IF b > 0 THEN a * RatioDen > -b
    ELSE IF b < 0 THEN a * RatioDen < -b
    ELSE a > 0

\* a / b < 1e-9 in IEEE arithmetic
QuotientBelowTol(a, b) ==
    IF b > 0 THEN a * RatioDen < b
    ELSE IF b < 0 THEN a * RatioDen > b
    ELSE a < 0

\* _utrj.norm(): the Frobenius norm.  With at most one non-zero column it is
\* that column's absolute value; otherwise the integer part of the root.
norm(u) ==
    LET a == [k \in Stages |-> Abs(u[k])]
        sq == [k \in Stages |-> u[k] * u[k]]
        nz == {k \in Stages : u[k] # 0}
    IN IF Cardinality(nz) <= 1
       THEN SumTo(a, NStages - 1)
       ELSE CHOOSE n \in 0 .. SumTo(a, NStages - 1) :
                n * n <= SumTo(sq, NStages - 1) /\ (n + 1) * (n + 1) > SumTo(sq, NStages - 1)

\* a mutant of should_stop: the defect test is missing
should_stop_no_defect(fp, u) ==
    IF fp.constraint_violation > FeasTol THEN FALSE
    ELSE IF QuotientAboveMinusTol(fp.merit_der, fp.merit) THEN TRUE
    ELSE IF QuotientBelowTol(fp.step_length, norm(u)) THEN TRUE
    ELSE FALSE

should_stop(fp, u) ==
    IF fp.constraint_violation > FeasTol THEN FALSE
    ELSE IF fp.defect_norm > FeasTol THEN FALSE
    ELSE IF QuotientAboveMinusTol(fp.merit_der, fp.merit) THEN TRUE
    ELSE IF QuotientBelowTol(fp.step_length, norm(u)) THEN TRUE
    ELSE FALSE

(***************************************************************************)
(* The merit function                                                      *)
(***************************************************************************)
compute_merit_value(mu_f, mu_c, cost, defect_norm, constr_viol) ==
    cost + mu_f * defect_norm + mu_c * constr_viol

\* <<mu_f, mu_c>>
compute_merit_weights ==
    LET lam_x == [i \in Stages |-> Abs(value[i].s)]
        lam_g == [i \in Stages |->
                     IF bp_res[i].nc > 0
                     THEN Abs(bp_res[i].glam + bp_res[i].Gu * bp_res[i].lu)
                     ELSE 0]
    IN <<MaxTo(lam_x, NStages - 1) * MeritSafetyFactor,
         MaxTo(lam_g, NStages - 1) * MeritSafetyFactor>>

compute_merit_slope(mu_f, mu_c, defect_norm, constr_viol) ==
    LET der == [i \in Stages |-> bp_res[i].lz * tmp[i].hu]
    IN SumTo(der, NStages - 1) - mu_f * defect_norm - mu_c * constr_viol

(***************************************************************************)
(* forward_pass                                                            *)
(***************************************************************************)
\* alpha * v for alpha in units of 2^-10 (exact for the values drawn: every
\* feedforward term and defect is a multiple of 512, and alpha >= 2)
Scale(alpha, v) == (alpha * v) \div AlphaOne

\* _fp_res->xtrj.col(0) as forward_pass initializes it
forward_pass_x0 == xtrj[0]

RECURSIVE forward_pass_x(_, _)
\* _fp_res->xtrj.col(k) after forward_pass_iter(0) .. forward_pass_iter(k-1)
forward_pass_x(k, alpha) ==
    IF k = 0 THEN forward_pass_x0
    ELSE LET i == k - 1
             dx == forward_pass_x(i, alpha) - xtrj[i]
             A == dyn[i].A
             B == dyn[i].B
             d == dyn[i].d
             L == bp_res[i].Lu
             l == Scale(alpha, bp_res[i].lu)
         IN xtrj[k] + (A + B * L) * dx + B * l + Scale(alpha, d)

\* _fp_res->utrj.col(i) after forward_pass_iter(i)
forward_pass_u(i, alpha) ==
    LET dx == forward_pass_x(i, alpha) - xtrj[i]
        L == bp_res[i].Lu
        l == Scale(alpha, bp_res[i].lu)
    IN utrj[i] + l + L * dx

\* _fp_res->step_length after the loop of forward_pass
forward_pass_step_length(alpha) ==
    LET a == [i \in Stages |-> Abs(Scale(alpha, bp_res[i].lu))]
    IN SumTo(a, NStages - 1)

\* What compute_cost, compute_constr and compute_defect return on a candidate
\* trajectory.  They evaluate the user's cost, constraint and dynamics
\* functions, which the solver only calls: the results are inputs.
FpOutcomes ==
    { [cost |-> 9,  defect_norm |-> 0, constraint_violation |-> 0],
      [cost |-> 10, defect_norm |-> 0, constraint_violation |-> 0],
      [cost |-> 9,  defect_norm |-> 1, constraint_violation |-> 0],
      [cost |-> 9,  defect_norm |-> 0, constraint_violation |-> 3] }

\* *_fp_res after forward_pass(alpha), with the values out of the three
\* evaluations
forward_pass(alpha, out) ==
    [fp_res EXCEPT
        !.accepted = FALSE,
        !.alpha = alpha,
        !.step_length = forward_pass_step_length(alpha),
        !.xtrj = [k \in Nodes |-> forward_pass_x(k, alpha)],
        !.utrj = [i \in Stages |-> forward_pass_u(i, alpha)],
        !.cost = out.cost,
        !.constraint_violation = out.constraint_violation,
        !.defect_norm = out.defect_norm]

(***************************************************************************)
(* line_search                                                             *)
(***************************************************************************)
\* a mutant of armijo: the slope term is missing
armijo_no_slope(merit_new, merit, alpha, merit_der) ==
    merit_new <= merit

\* merit_new <= merit + eta*alpha*merit_der, both sides multiplied by
\* EtaDen * AlphaOne
armijo(merit_new, merit, alpha, merit_der) ==
    (merit_new - merit) * EtaDen * AlphaOne <= alpha * merit_der

\* a mutant of alpha_in_range: alpha_min is ten times smaller
alpha_in_range_wide(alpha) == alpha * 10 * AlphaMinDen >= AlphaOne

\* alpha >= alpha_min
alpha_in_range(alpha) == alpha * AlphaMinDen >= AlphaOne

\* what report_result hands to the iteration callback (CallbackType), with
\* the accepted flag and alpha of the result it is called on
ReportPayload(fp) ==
    [xtrj |-> fp.xtrj, utrj |-> fp.utrj, step_length |-> fp.step_length,
     cost |-> fp.cost, defect_norm |-> fp.defect_norm,
     constraint_violation |-> fp.constraint_violation,
     alpha |-> fp.alpha, accepted |-> fp.accepted]

\* the entry the log keeps of one report_result call: which attempt the
\* reported result came from (0: none yet), its alpha and accepted flag
ReportEntry(fp, attempt) ==
    [attempt |-> attempt, alpha |-> fp.alpha, accepted |-> fp.accepted]

\* a mutant of soft_accept: the flag is left as Armijo set it
soft_accept_keeps_flag(fp) == fp

\* if(!_fp_res->accepted) { _fp_res->accepted = true; ...
soft_accept(fp) == [fp EXCEPT !.accepted = TRUE]

\* lines 227-255: the weights, the initial merit, the report of iteration 0,
\* the slope
line_search_begin ==
    /\ pc = "ls_begin"
    /\ LET w == compute_merit_weights
           mu_f == w[1]
           mu_c == w[2]
           merit == compute_merit_value(mu_f, mu_c, fp_res.cost,
                        fp_res.defect_norm, fp_res.constraint_violation)
           merit_der == compute_merit_slope(mu_f, mu_c,
                        fp_res.defect_norm, fp_res.constraint_violation)
           fp1 == [fp_res EXCEPT !.mu_f = mu_f, !.mu_c = mu_c,
                                 !.merit = IF ls.iter = 0 THEN merit ELSE @]
       IN /\ reports' = IF ls.iter = 0
                        THEN Append(reports, ReportEntry(fp1, n_fp))
                        ELSE reports
          /\ last_report' = IF ls.iter = 0 THEN ReportPayload(fp1) ELSE last_report
          /\ fp_res' = [fp1 EXCEPT !.merit_der = merit_der]
          /\ ls' = [ls EXCEPT !.alpha = AlphaOne, !.mu_f = mu_f, !.mu_c = mu_c,
                              !.merit = merit, !.merit_der = merit_der]
    /\ pc' = "ls_while"
    /\ UNCHANGED <<ret, xtrj, utrj, n_fp, dyn, bp_res, tmp, value>>
    /\ UNCHANGED <<bp_vars, cost_vars, sqp, al>>

\* lines 258-270: the loop test holds; forward pass, merit, Armijo
line_search_forward_pass ==
    /\ pc = "ls_while"
    /\ alpha_in_range(ls.alpha)
    /\ \E out \in FpOutcomes :
          LET fp1 == forward_pass(ls.alpha, out)
              m == compute_merit_value(ls.mu_f, ls.mu_c, fp1.cost,
                       fp1.defect_norm, fp1.constraint_violation)
          IN fp_res' = [fp1 EXCEPT !.merit = m,
                           !.accepted = armijo(m, ls.merit, ls.alpha, ls.merit_der)]
    /\ n_fp' = n_fp + 1
    /\ pc' = "ls_report"
    /\ UNCHANGED <<ret, xtrj, utrj, ls, reports, last_report, dyn, bp_res, tmp, value>>
    /\ UNCHANGED <<bp_vars, cost_vars, sqp, al>>

\* a mutant of line_search_report: a rejected attempt is not reported
line_search_report_accepted_only ==
    /\ pc = "ls_report"
    /\ IF fp_res.accepted
       THEN /\ reports' = Append(reports, ReportEntry(fp_res, n_fp))
            /\ last_report' = ReportPayload(fp_res)
            /\ pc' = "ls_after"
            /\ ls' = ls
       ELSE /\ UNCHANGED <<reports, last_report>>
            /\ pc' = "ls_while"
            /\ ls' = [ls EXCEPT !.alpha = @ \div StepReductionDen]
    /\ UNCHANGED <<ret, xtrj, utrj, fp_res, n_fp, dyn, bp_res, tmp, value>>
    /\ UNCHANGED <<bp_vars, cost_vars, sqp, al>>

\* lines 272-282: the callback, then break or reduce the step size
line_search_report ==
    /\ pc = "ls_report"
    /\ reports' = Append(reports, ReportEntry(fp_res, n_fp))
    /\ last_report' = ReportPayload(fp_res)
    /\ IF fp_res.accepted
       THEN /\ pc' = "ls_after"
            /\ ls' = ls
       ELSE /\ pc' = "ls_while"
            /\ ls' = [ls EXCEPT !.alpha = @ \div StepReductionDen]
    /\ UNCHANGED <<ret, xtrj, utrj, fp_res, n_fp, dyn, bp_res, tmp, value>>
    /\ UNCHANGED <<bp_vars, cost_vars, sqp, al>>

\* line 258: the loop test fails
line_search_exit_loop ==
    /\ pc = "ls_while"
    /\ ~alpha_in_range(ls.alpha)
    /\ pc' = "ls_after"
    /\ UNCHANGED <<ret, xtrj, utrj, fp_res, ls, reports, last_report, n_fp, dyn,
                   bp_res, tmp, value>>
    /\ UNCHANGED <<bp_vars, cost_vars, sqp, al>>

\* lines 284-288: a step that Armijo did not accept is accepted all the same
line_search_after_loop ==
    /\ pc = "ls_after"
    /\ IF ~fp_res.accepted
       THEN /\ fp_res' = soft_accept(fp_res)
            /\ reports' = Append(reports, ReportEntry(fp_res', n_fp))
            /\ last_report' = ReportPayload(fp_res')
       ELSE UNCHANGED <<fp_res, reports, last_report>>
    /\ pc' = "ls_commit"
    /\ UNCHANGED <<ret, xtrj, utrj, ls, n_fp, dyn, bp_res, tmp, value>>
    /\ UNCHANGED <<bp_vars, cost_vars, sqp, al>>

\* lines 290-291: the candidate becomes the trajectory
line_search_commit ==
    /\ pc = "ls_commit"
    /\ xtrj' = fp_res.xtrj
    /\ utrj' = fp_res.utrj
    /\ pc' = "ls_done"
    /\ UNCHANGED <<ret, fp_res, ls, reports, last_report, n_fp, dyn, bp_res, tmp, value>>
    /\ UNCHANGED <<bp_vars, cost_vars, sqp, al>>

NextLS ==
    \/ line_search_begin
    \/ line_search_forward_pass
    \/ line_search_report
    \/ line_search_exit_loop
    \/ line_search_after_loop
    \/ line_search_commit

(***************************************************************************)
(* The regularization.  hxx_reg is kept on a logarithmic scale: level e    *)
(* stands for 10^((e - RegOne) / 3), so that the growth factor 10 is three *)
(* levels and its cube root is one.  Level 0 stands for 0.0 and for what   *)
(* has underflowed to it, level RegInf for +inf (overflow).                *)
(***************************************************************************)
\* the level at which hxx_reg has overflowed to +inf
RegInf == 33
\* 1.0
RegOne == 21
\* 1e-6
RegTiny == 3
\* _hxx_reg_growth_factor = 10, in levels
hxx_reg_growth_factor == 3

\* a mutant of increase_regularization: a negligible _hxx_reg becomes 1.0 and
\* is not multiplied
increase_regularization_from_one(h, base) ==
    LET h2 == IF h < RegTiny THEN RegOne
              ELSE IF h + hxx_reg_growth_factor > RegInf THEN RegInf
              ELSE h + hxx_reg_growth_factor
    IN IF h2 < base THEN base ELSE h2

\* _hxx_reg after increase_regularization()
increase_regularization(h, base) ==
    LET h1 == IF h < RegTiny THEN RegOne ELSE h
        h2 == IF h1 + hxx_reg_growth_factor > RegInf THEN RegInf
              ELSE h1 + hxx_reg_growth_factor
    IN IF h2 < base THEN base ELSE h2

\* a mutant of reduce_regularization: the floor of lines 1407-1410 is missing
reduce_regularization_no_floor(h, base) == IF h = 0 THEN 0 ELSE h - 1

\* reduce_regularization: _hxx_reg divided by the cube root of the growth
\* factor, one level down, and not below _hxx_reg_base
reduce_regularization(h, base) ==
    LET h1 == IF h = 0 THEN 0 ELSE IF h = RegInf THEN RegInf ELSE h - 1
    IN IF h1 < base THEN base ELSE h1

(***************************************************************************)
(* The constraint-to-go.  A row stands for  C x + D u + h = 0;  C and D    *)
(* are plain integers, h is in the unit of the states.  In the backward    *)
(* pass that unit is 0.5e-9.                                               *)
(***************************************************************************)
\* c_max = nx*10, with nx = 1
c_max == 10
\* 1e-9, the tolerance on |hinf[i]|, in units of 0.5e-9
DropTolH == 2
\* 1e-9 = 1 / DropTolCDen, the tolerance on the row of Cinf
DropTolCDen == 1000000000
\* 1e-8, the tolerance of the infeasibility warning, in units of 0.5e-9
WarnTol == 20

Row(C, D, h) == [C |-> C, D |-> D, h |-> h]

\* the rows after set(constr)
ctg_set(rows, constr) == IF ~constr.is_valid THEN rows ELSE constr.rows

\* the rows after clear()
ctg_clear == << >>

\* the rows after add(...) of the rows new
ctg_add(rows, new) == rows \o new

\* the rows after add(constr)
ctg_add_constraint(rows, constr) ==
    IF constr.is_valid THEN ctg_add(rows, constr.rows) ELSE rows

\* the rows after propagate_backwards(A, B, d)
propagate_backwards(rows, A, B, d) ==
    [j \in 1 .. Len(rows) |->
        Row(rows[j].C * A, rows[j].C * B, rows[j].h - rows[j].C * d)]

fixed_initial_state == x_lb[0] = x_ub[0]

\* a mutant of add_bound_constraint: the state rows of a fixed initial state
\* are added as well
add_bound_constraint_fixed_too(rows, k) ==
    LET xrows == IF x_lb[k] = x_ub[k]
                 THEN <<Row(1, 0, xtrj[k] - x_lb[k])>>
                 ELSE << >>
        urows == IF k # NStages /\ u_lb[k] = u_ub[k]
                 THEN <<Row(0, 1, utrj[k] - u_lb[k])>>
                 ELSE << >>
    IN ctg_add(ctg_add(rows, xrows), urows)

\* the rows after add_bound_constraint(k)
add_bound_constraint(rows, k) ==
    LET xrows == IF ~(k = 0 /\ fixed_initial_state) /\ x_lb[k] = x_ub[k]
                 THEN <<Row(1, 0, xtrj[k] - x_lb[k])>>
                 ELSE << >>
        urows == IF k # NStages /\ u_lb[k] = u_ub[k]
                 THEN <<Row(0, 1, utrj[k] - u_lb[k])>>
                 ELSE << >>
    IN ctg_add(ctg_add(rows, xrows), urows)

\* a mutant of handle_constraints_prepare: the bounds are not added
handle_constraints_prepare_no_bounds(rows, i) ==
    ctg_add_constraint(
        propagate_backwards(rows, dyn[i].A, dyn[i].B, dyn[i].d),
        constraint[i])

\* lines 1437-1445 of handle_constraints(i): the rows before the decomposition
handle_constraints_prepare(rows, i) ==
    add_bound_constraint(
        ctg_add_constraint(
            propagate_backwards(rows, dyn[i].A, dyn[i].B, dyn[i].d),
            constraint[i]),
        i)

\* the rank of the column D (nu = 1) as handle_constraints takes it: every
\* non-zero entry of D is an integer, hence above _svd_threshold
constraint_rank(rows) ==
    IF \E j \in 1 .. Len(rows) : rows[j].D # 0 THEN 1 ELSE 0

\* What a row of codQ2' * [C h] can be when the decomposition mixes rows:
\* 0 x + 0 = 0 (linearly dependent), 0 x + 0.5e-9 = 0 and 0 x + 1e-9 = 0
\* (infeasible), and a constraint on the state with a residual below 1e-9.
RotatedRows == {Row(0, 0, 0), Row(0, 0, 1), Row(0, 0, 2), Row(1, 0, 1)}

\* the row that the decomposition turns into the feasible row when the rank
\* is 1: the first row with a non-zero D
pivot(rows) ==
    CHOOSE j \in 1 .. Len(rows) :
        rows[j].D # 0 /\ \A k \in 1 .. (j - 1) : rows[k].D = 0

RECURSIVE rotations(_, _, _)
\* The rows k.. of codQ2' * [C h] when the rank is 1, row p being the pivot.
\* codQ is the Householder reflection that maps D onto one axis: it leaves
\* row k alone when D[k] = 0 and mixes it with the other rows otherwise.  What
\* the mixing gives depends on the reals in C, D and h, which are inputs.
rotations(rows, k, p) ==
    IF k > Len(rows) THEN {<< >>}
    ELSE IF k = p THEN rotations(rows, k + 1, p)
    ELSE LET heads == IF rows[k].D = 0
                      THEN {Row(rows[k].C, 0, rows[k].h)}
                      ELSE RotatedRows
         IN {<<hd>> \o tl : hd \in heads, tl \in rotations(rows, k + 1, p)}

\* the candidates for Cinf, hinf: with rank 0 codQ is the identity
infeasible_part(rows) ==
    IF constraint_rank(rows) = 0
    THEN {[j \in 1 .. Len(rows) |-> Row(rows[j].C, 0, rows[j].h)]}
    ELSE rotations(rows, 1, pivot(rows))

\* a mutant of linearly_dependent: the row of Cinf is not looked at
linearly_dependent_h_only(r) == Abs(r.h) < DropTolH

\* the i-th infeasible constraint is in the form 0x = 0
linearly_dependent(r) ==
    Abs(r.h) < DropTolH /\ Abs(r.C) * DropTolCDen < 1

\* lines 1538-1552: the constraint-to-go that handle_constraints leaves
infeasible_to_go(inf) == SelectSeq(inf, LAMBDA r : ~linearly_dependent(r))

\* a mutant of kkt_finite: the check of line 1144 is missing
kkt_finite_unchecked(i) == TRUE

\* the KKT solution u_lam of stage i is finite
kkt_finite(i) == kkt_need[i] <= hxx_reg /\ hxx_reg < RegInf

\* What a finite KKT solution and the value function update can be: Lu, lu,
\* glam and s depend on the reals of the cost and of the dynamics, which are
\* inputs.
KktSolutions ==
    { [Lu |-> 0, lu |-> 0, glam |-> 0, s |-> 0],
      [Lu |-> -1, lu |-> 2, glam |-> 1, s |-> 1] }

\* a mutant of unsatisfied: a residual equal to the threshold counts as
\* satisfied
unsatisfied_strict(r, dx) ==
    ~(Abs(r.C * dx + r.h) <= opt.constraint_violation_threshold)

\* optimize_initial_state puts the row back: its residual is not below
\* _constraint_violation_threshold
unsatisfied(r, dx) ==
    ~(Abs(r.C * dx + r.h) < opt.constraint_violation_threshold)

\* the dx of the KKT system of optimize_initial_state where the rows of the
\* constraint-to-go do not fix it: it depends on S and s, which are inputs
DxSolutions == {-1, 0}

\* lines 1196-1251: the dx of the KKT system [S C'; C 0] [dx; lam] = -[s; h].
\* Rows that one dx satisfies are satisfied by the solution; with no row, or
\* with rows that no dx satisfies together, dx is one of DxSolutions.
state_kkt_dx(rows) ==
    LET sat(d) == \A j \in 1 .. Len(rows) : rows[j].C * d + rows[j].h = 0
        exact == {d \in {(-rows[j].h) \div rows[j].C :
                            j \in {n \in 1 .. Len(rows) : rows[n].C # 0}} : sat(d)}
    IN IF exact # {} THEN exact ELSE DxSolutions

\* what qr.solve(k) can leave in dx when qr has not been given a matrix
DxGarbage == DxSolutions \cup {-40}

(***************************************************************************)
(* backward_pass                                                           *)
(***************************************************************************)
\* lines 950-968: the final value function, the constraint-to-go of node N
backward_pass_begin ==
    /\ pc = "bp_begin"
    /\ value' = [value EXCEPT ![NStages].S_reg = hxx_reg]
    /\ LET rows == ctg_set(ctg, constraint[NStages])
       IN IF Len(rows) > c_max
          THEN /\ ctg' = rows
               /\ bp_i' = NStages
               /\ pc' = "bp_overflow"
          ELSE /\ ctg' = add_bound_constraint(rows, NStages)
               /\ bp_i' = NStages - 1
               /\ pc' = "bp_loop"
    /\ UNCHANGED <<xtrj, utrj, dyn, bp_res, tmp, ls_vars, cost_vars, sqp, al, hxx_reg, opt, constraint,
                   x_lb, x_ub, u_lb, u_ub, kkt_need, warned>>
    /\ hc' = << >>

\* a mutant of next_stage: every other stage is skipped
next_stage_skip(i) == i - 2

\* line 975: --i
next_stage(i) == i - 1

\* backward_pass_iter(i) from line 1447 of handle_constraints on, the
\* constraint-to-go holding the rows that lines 1437-1445 have stacked:
\* decomposition, KKT system, and either the solution is saved and i
\* decremented, or HessianIndefinite is thrown and caught by backward_pass,
\* which increases the regularization and calls itself
backward_pass_iter_from(rows) ==
    LET i == bp_i
        nc == Len(rows)
        rank == IF nc = 0 THEN 0 ELSE constraint_rank(rows)
    IN /\ \E inf \in (IF nc = 0 THEN {<< >>} ELSE infeasible_part(rows)) :
             /\ hc' = inf
             /\ ctg' = infeasible_to_go(inf)
       /\ tmp' = [tmp EXCEPT ![i].hf_size = rank]
       /\ IF kkt_finite(i)
          THEN /\ \E sol \in KktSolutions :
                     /\ bp_res' = [bp_res EXCEPT ![i].nc = nc, ![i].Lu = sol.Lu,
                                       ![i].lu = sol.lu, ![i].glam = sol.glam]
                     /\ value' = [value EXCEPT ![i] = [s |-> sol.s, S_reg |-> hxx_reg]]
               /\ bp_i' = next_stage(i)
               /\ pc' = "bp_loop"
               /\ UNCHANGED hxx_reg
          ELSE /\ bp_res' = [bp_res EXCEPT ![i].nc = nc]
               /\ hxx_reg' = increase_regularization(hxx_reg, opt.hxx_reg_base)
               /\ pc' = "bp_begin"
               /\ UNCHANGED <<value, bp_i>>
       /\ UNCHANGED <<xtrj, utrj, dyn, ls_vars, cost_vars, sqp, al, opt, constraint, x_lb, x_ub, u_lb,
                      u_ub, kkt_need, warned>>

\* lines 969-983: one turn of the loop
backward_pass_iter ==
    /\ pc = "bp_loop"
    /\ bp_i >= 0
    /\ LET rows == handle_constraints_prepare(ctg, bp_i)
       IN IF Len(rows) > c_max
          THEN /\ ctg' = rows
               /\ pc' = "bp_overflow"
               /\ UNCHANGED <<xtrj, utrj, dyn, bp_res, tmp, value, ls_vars, cost_vars, sqp, al, hxx_reg,
                              opt, constraint, x_lb, x_ub, u_lb, u_ub, kkt_need, bp_i,
                              warned, hc>>
          ELSE backward_pass_iter_from(rows)

\* The constraint-to-go has been given more rows than its matrices have.
\* set does not check (line 857), and its write past their end is undefined:
\* either the run is aborted (an Eigen assertion), or it goes on with the rows
\* as if they had been stored.  An add that finds no room ends the run.
constraint_to_go_overflow ==
    /\ pc = "bp_overflow"
    /\ \/ /\ pc' = "bp_abort"
          /\ UNCHANGED <<xtrj, utrj, dyn, bp_res, tmp, value, ls_vars, cost_vars, sqp, al, bp_vars>>
       \/ /\ bp_i = NStages
          /\ ctg' = add_bound_constraint(ctg, NStages)
          /\ bp_i' = NStages - 1
          /\ pc' = "bp_loop"
          /\ UNCHANGED <<xtrj, utrj, dyn, bp_res, tmp, value, ls_vars, cost_vars, sqp, al, hxx_reg, opt,
                         constraint, x_lb, x_ub, u_lb, u_ub, kkt_need, warned, hc>>

\* a mutant of optimize_fixed: the correction of a fixed initial state is zero
optimize_fixed_zero(res) == [res EXCEPT ![0].dx = 0]

\* lines 1180-1184: the initial state is fixed
optimize_fixed(res) == [res EXCEPT ![0].dx = x_lb[0] - xtrj[0]]

\* the multipliers of the state KKT system, one for each row of the
\* constraint-to-go; they depend on the reals of the value function
LamSolutions == {0, 1}

\* lines 1219-1239: the decompositions x_lu, x_qr and x_ldlt of _tmp[0] after
\* the switch on the decomposition type t.  A decomposition is "never"
\* computed, holds the factors of the matrix "K" of this call, or holds the
\* "stale" factors of an earlier call.  The case Qr calls no compute.
x_compute(dec, t) == IF t = "Qr" THEN dec ELSE [dec EXCEPT ![t] = "K"]

\* line 986 and optimize_initial_state: dx[0], and the rows that dx[0] does
\* not satisfy are put back.  With kkt_decomp_type = Qr, qr.solve is called
\* on a decomposition that has never been given a matrix (line 1230), which
\* is undefined: the run is aborted (an Eigen assertion) or dx is garbage.
optimize_initial_state ==
    /\ pc = "bp_loop"
    /\ bp_i < 0
    /\ IF fixed_initial_state
       THEN /\ bp_res' = optimize_fixed(bp_res)
            /\ pc' = "bp_check"
            /\ UNCHANGED <<ctg, tmp>>
       ELSE LET t == opt.kkt_decomp_type
                dec == x_compute(tmp[0].x_dec, t)
            IN /\ tmp' = [tmp EXCEPT ![0].x_dec = dec, ![0].x_used = dec[t]]
               /\ \/ /\ \E dx \in (IF dec[t] = "K" THEN state_kkt_dx(ctg)
                                      ELSE DxGarbage) :
                           /\ \E lam \in LamSolutions :
                                 bp_res' = [bp_res EXCEPT
                                               ![0].dx = dx,
                                               ![0].dx_lam =
                                                   [j \in 1 .. Len(ctg) |-> lam]]
                           /\ ctg' = ctg_add(ctg_clear,
                                         SelectSeq(ctg, LAMBDA r : unsatisfied(r, dx)))
                     /\ pc' = "bp_check"
                  \/ /\ dec[t] # "K"
                     /\ pc' = "bp_abort"
                     /\ UNCHANGED <<bp_res, ctg>>
    /\ UNCHANGED <<xtrj, utrj, dyn, value, ls_vars, cost_vars, sqp, al, hxx_reg, opt, constraint,
                   x_lb, x_ub, u_lb, u_ub, kkt_need, bp_i, warned>>
    /\ hc' = << >>

\* the 1-norm of C*dx + h over the rows
residual_norm1(rows, dx) ==
    SumTo([j \in 0 .. (Len(rows) - 1) |->
              Abs(rows[j + 1].C * dx + rows[j + 1].h)], Len(rows) - 1)

\* lines 988-1015: the infeasibility warning; backward_pass returns
backward_pass_check ==
    /\ pc = "bp_check"
    /\ warned' = (/\ Len(ctg) > 0
                  /\ residual_norm1(ctg, bp_res[0].dx) > WarnTol)
    /\ pc' = "bp_done"
    /\ UNCHANGED <<xtrj, utrj, dyn, bp_res, tmp, value, ls_vars, cost_vars, sqp, al, hxx_reg, opt, ctg,
                   constraint, x_lb, x_ub, u_lb, u_ub, kkt_need, bp_i, hc>>

NextBP ==
    \/ backward_pass_begin
    \/ backward_pass_iter
    \/ constraint_to_go_overflow
    \/ optimize_initial_state
    \/ backward_pass_check

\* a constraint without rows that is not set
NoConstraint == [is_valid |-> FALSE, rows |-> << >>]

\* the state of what only the backward pass uses, where it plays no part
NoBackwardPass ==
    /\ hxx_reg = 0
    /\ opt = [hxx_reg_base |-> 0, constraint_violation_threshold |-> 2,
              kkt_decomp_type |-> "Lu", huu_reg |-> 0]
    /\ ctg = << >>
    /\ constraint = [k \in Nodes |-> NoConstraint]
    /\ x_lb = [k \in Nodes |-> -8]
    /\ x_ub = [k \in Nodes |-> 8]
    /\ u_lb = [i \in Stages |-> -8]
    /\ u_ub = [i \in Stages |-> 8]
    /\ kkt_need = [i \in Stages |-> 0]
    /\ bp_i = NStages
    /\ warned = FALSE
    /\ hc = << >>

(***************************************************************************)
(* The cost_fn setters.  A cost_fn function is known by its name.                *)
(***************************************************************************)
\* the cost_fn functions a caller hands over
CostFunctions == {"la", "lb"}

\* _cost as set_default_cost leaves it
DefaultCost == [k \in Nodes |-> IF k = NStages THEN "dfl_cost_final" ELSE "dfl_cost"]

\* the vectors of cost_fn functions of length 0 .. N + 1
CostVectors == UNION {[1 .. n -> CostFunctions] : n \in 0 .. (NStages + 1)}

\* a mutant of wrong_length: a vector that is too long is let through
wrong_length_short_only(inter_cost) == Len(inter_cost) < NStages

\* inter_cost.size() != _N
wrong_length(inter_cost) == Len(inter_cost) # NStages

setIntermediateCost(inter_cost) ==
    /\ pc = "idle"
    /\ call' = [op |-> "setIntermediateCost", arg |-> inter_cost]
    /\ IF wrong_length(inter_cost)
       THEN /\ exc' = "invalid_argument"
            /\ UNCHANGED cost_fn
       ELSE /\ exc' = "none"
            /\ cost_fn' = [k \in Nodes |->
                           IF k < NStages /\ k + 1 <= Len(inter_cost)
                           THEN inter_cost[k + 1] ELSE cost_fn[k]]
    /\ UNCHANGED <<pc, xtrj, utrj, dyn, bp_res, tmp, value, ls_vars, bp_vars, sqp, al>>

setFinalCost(final_cost) ==
    /\ pc = "idle"
    /\ call' = [op |-> "setFinalCost", arg |-> <<final_cost>>]
    /\ exc' = "none"
    /\ cost_fn' = [cost_fn EXCEPT ![NStages] = final_cost]
    /\ UNCHANGED <<pc, xtrj, utrj, dyn, bp_res, tmp, value, ls_vars, bp_vars, sqp, al>>

NextCost ==
    \/ \E inter_cost \in CostVectors : setIntermediateCost(inter_cost)
    \/ \E final_cost \in CostFunctions : setFinalCost(final_cost)

\* the state of the cost_fn setters after construction
NoCostCall ==
    /\ cost_fn = DefaultCost
    /\ call = [op |-> "none", arg |-> << >>]
    /\ exc = "none"

(***************************************************************************)
(* The regularization, increased and reduced in any order                  *)
(***************************************************************************)
increase_regularization_call ==
    /\ pc = "reg_idle"
    /\ hxx_reg' = increase_regularization(hxx_reg, opt.hxx_reg_base)
    /\ call' = [op |-> "increase_regularization", arg |-> << >>]
    /\ UNCHANGED <<pc, xtrj, utrj, dyn, bp_res, tmp, value, ls_vars, sqp, al, cost_fn, exc, opt,
                   ctg, constraint, x_lb, x_ub, u_lb, u_ub, kkt_need, bp_i, warned, hc>>

reduce_regularization_call ==
    /\ pc = "reg_idle"
    /\ hxx_reg' = reduce_regularization(hxx_reg, opt.hxx_reg_base)
    /\ call' = [op |-> "reduce_regularization", arg |-> << >>]
    /\ UNCHANGED <<pc, xtrj, utrj, dyn, bp_res, tmp, value, ls_vars, sqp, al, cost_fn, exc, opt,
                   ctg, constraint, x_lb, x_ub, u_lb, u_ub, kkt_need, bp_i, warned, hc>>

NextReg ==
    \/ increase_regularization_call
    \/ reduce_regularization_call

(***************************************************************************)
(* SQPGaussNewton (sqp.h).  The problem has one variable x, in units of    *)
(* 1e-6; the residual of the cost is f(x) = x - target and the constraint  *)
(* function is g(x) = x, so J = 1, H = J'J = 1 and A = 1.  "f" is in units *)
(* of 0.5e-12.  The step alpha*dx is rounded down to the grid of x.        *)
(***************************************************************************)
\* the largest max_iter an SQPGaussNewton is constructed with
MaxIter == 3

\* _solution_convergence(1e-6)
solution_convergence == 1

\* the residual of the cost function, _f
sqp_f(x) == x - sqp.target

\* the constraint function, _g
sqp_g(x) == x

\* 0.5*norm*norm of a residual
half_sq_norm(v) == v * v

\* casadi::norm_2 of a constraint vector
norm_2(v) == Abs(v)

\* the minimizer of 0.5*H*dx^2 + grad*dx over lba <= A*dx <= uba and
\* lbx <= dx <= ubx, for H = 1 and A = 1
conic(grad, lba, uba, lbx, ubx) ==
    LET lo == Max(lba, lbx)
        hi == IF uba < ubx THEN uba ELSE ubx
    IN IF 0 - grad < lo THEN lo ELSE IF 0 - grad > hi THEN hi ELSE 0 - grad

\* the arguments of solve: initial_guess_x, lbx, ubx, lbg, ubg
SolveArgs ==
    [initial_guess_x : {0, 4, 8}, lbx : {-16, 2}, ubx : {16}, lbg : {-16}, ubg : {16}]

\* the steps setAlpha is called with: 1.0 and 0.5
SqpAlphas == {AlphaOne, AlphaOne \div 2}

\* the data members after the constructor: _variable_trj has max_iter + 1
\* empty matrices; _iteration_to_solve is not initialized, and nothing reads it
\* before the first solve
SqpOf(max_iter, target) ==
    [max_iter |-> max_iter, target |-> target, alpha |-> AlphaOne,
     arg |-> [initial_guess_x |-> 0, lbx |-> 0, ubx |-> 0, lbg |-> 0, ubg |-> 0],
     x0 |-> 0, f_out |-> 0, g_out |-> 0, dx |-> 0, k |-> 0,
     variable_trj |-> [j \in 1 .. (max_iter + 1) |-> 0],
     iteration_to_solve |-> 0,
     solution |-> [x |-> 0, f |-> 0, g |-> 0],
     objective |-> << >>]

setAlpha(alpha) ==
    /\ pc \in {"sqp_idle", "sqp_done"}
    /\ sqp' = [sqp EXCEPT !.alpha = alpha]
    /\ UNCHANGED <<pc, xtrj, utrj, dyn, bp_res, tmp, value, ls_vars, bp_vars, cost_vars, al>>

\* solve, up to the loop: lines 175-182
solve_begin(arg) ==
    /\ pc \in {"sqp_idle", "sqp_done"}
    /\ sqp' = [sqp EXCEPT !.arg = arg, !.x0 = arg.initial_guess_x,
                          !.variable_trj[1] = arg.initial_guess_x,
                          !.iteration_to_solve = 0, !.k = 0]
    /\ pc' = "sqp_loop"
    /\ UNCHANGED <<xtrj, utrj, dyn, bp_res, tmp, value, ls_vars, bp_vars, cost_vars, al>>

\* the full step of one iteration: lines 247-255, and ++k
solve_step(s, f, g, dx) ==
    [s EXCEPT !.f_out = f, !.g_out = g, !.dx = dx,
              !.x0 = s.x0 + Scale(s.alpha, dx),
              !.variable_trj[s.k + 2] = s.x0 + Scale(s.alpha, dx),
              !.iteration_to_solve = s.iteration_to_solve + 1,
              !.k = s.k + 1]

\* _dx.norm() <= _solution_convergence
converged(dx) == Abs(dx) <= solution_convergence

\* one iteration of the loop of solve: lines 183-257
solve_iter ==
    /\ pc = "sqp_loop"
    /\ sqp.k < sqp.max_iter
    /\ LET f == sqp_f(sqp.x0)
           g == sqp_g(sqp.x0)
           dx == conic(f, sqp.arg.lbg - g, sqp.arg.ubg - g,
                       sqp.arg.lbx - sqp.x0, sqp.arg.ubx - sqp.x0)
       IN IF converged(dx)
          THEN /\ sqp' = [sqp EXCEPT !.f_out = f, !.g_out = g, !.dx = dx]
               /\ pc' = "sqp_break"
          ELSE /\ sqp' = solve_step(sqp, f, g, dx)
               /\ pc' = "sqp_loop"
    /\ UNCHANGED <<xtrj, utrj, dyn, bp_res, tmp, value, ls_vars, bp_vars, cost_vars, al>>

\* solve, after the loop: lines 259-263
solve_return ==
    /\ \/ pc = "sqp_break"
       \/ pc = "sqp_loop" /\ sqp.k >= sqp.max_iter
    /\ sqp' = [sqp EXCEPT !.solution = [x |-> sqp.x0, f |-> half_sq_norm(sqp.f_out),
                                        g |-> norm_2(sqp.g_out)]]
    /\ pc' = "sqp_done"
    /\ UNCHANGED <<xtrj, utrj, dyn, bp_res, tmp, value, ls_vars, bp_vars, cost_vars, al>>

\* what getVariableTrajectory returns
getVariableTrajectory == sqp.variable_trj

\* getObjectiveIterations evaluates _f at _variable_trj[0 .. _iteration_to_solve - 1]
getObjectiveIterations ==
    /\ pc = "sqp_done"
    /\ sqp' = [sqp EXCEPT
                 !.objective = [j \in 1 .. sqp.iteration_to_solve |->
                                  half_sq_norm(sqp_f(sqp.variable_trj[j]))],
                 !.f_out = IF sqp.iteration_to_solve = 0 THEN @
                           ELSE sqp_f(sqp.variable_trj[sqp.iteration_to_solve])]
    /\ UNCHANGED <<pc, xtrj, utrj, dyn, bp_res, tmp, value, ls_vars, bp_vars, cost_vars, al>>

NextSqp ==
    \/ \E alpha \in SqpAlphas : setAlpha(alpha)
    \/ \E arg \in SolveArgs : solve_begin(arg)
    \/ solve_iter
    \/ solve_return
    \/ getObjectiveIterations

\* no SQPGaussNewton is in use
NoSqp == sqp = SqpOf(1, 0)

(***************************************************************************)
(* add_bound_constraint, called once on any node                           *)
(***************************************************************************)
add_bound_constraint_call(k) ==
    /\ pc = "bound_idle"
    /\ call.op = "none"
    /\ ctg' = add_bound_constraint(ctg, k)
    /\ call' = [op |-> "add_bound_constraint", arg |-> <<k>>]
    /\ UNCHANGED <<pc, xtrj, utrj, dyn, bp_res, tmp, value, ls_vars, sqp, al, cost_fn, exc,
                   hxx_reg, opt, constraint, x_lb, x_ub, u_lb, u_ub, kkt_need, bp_i,
                   warned, hc>>

NextBound == \E k \in Nodes : add_bound_constraint_call(k)

(***************************************************************************)
(* The two forward passes of the sources, called once on any trajectory    *)
(***************************************************************************)
RECURSIVE forward_pass_x_earlier(_, _)
\* lines 666-699, the earlier forward_pass_iter: _fp_res.xtrj.col(k) after
\* the stages 0 .. k-1.  Its feedback gain Lfb and feedforward du_ff are the
\* Lu and lu of the model; the defect d is added as it is.
forward_pass_x_earlier(k, alpha) ==
    IF k = 0 THEN xtrj[0]
    ELSE LET i == k - 1
             dx == forward_pass_x_earlier(i, alpha) - xtrj[i]
             A == dyn[i].A
             B == dyn[i].B
             d == dyn[i].d
             L == bp_res[i].Lu
             l == Scale(alpha, bp_res[i].lu)
         IN xtrj[k] + (A + B * L) * dx + B * l + d

\* lines 666-699: _fp_res.utrj.col(i) after stage i
forward_pass_u_earlier(i, alpha) ==
    LET dx == forward_pass_x_earlier(i, alpha) - xtrj[i]
        L == bp_res[i].Lu
        l == Scale(alpha, bp_res[i].lu)
    IN utrj[i] + l + L * dx

\* the step sizes of a forward pass: 1, 1/2 and 1/4
FpAlphas == {AlphaOne, AlphaOne \div 2, AlphaOne \div 4}

\* lines 4-28: forward_pass(alpha)
forward_pass_call ==
    /\ pc = "fp_idle"
    /\ call.op = "none"
    /\ \E alpha \in FpAlphas, out \in FpOutcomes :
          /\ fp_res' = forward_pass(alpha, out)
          /\ call' = [op |-> "forward_pass", arg |-> <<alpha>>]
    /\ UNCHANGED <<pc, ret, xtrj, utrj, ls, reports, last_report, n_fp, dyn, bp_res,
                   tmp, value, bp_vars, cost_fn, exc, sqp, al>>

\* lines 647-664: the earlier forward_pass(alpha), which always accepts the
\* step
forward_pass_earlier_call ==
    /\ pc = "fp_idle"
    /\ call.op = "none"
    /\ \E alpha \in FpAlphas :
          /\ fp_res' = [fp_res EXCEPT
                           !.xtrj = [k \in Nodes |-> forward_pass_x_earlier(k, alpha)],
                           !.utrj = [i \in Stages |-> forward_pass_u_earlier(i, alpha)]]
          /\ call' = [op |-> "forward_pass_earlier", arg |-> <<alpha>>]
    /\ xtrj' = fp_res'.xtrj
    /\ utrj' = fp_res'.utrj
    /\ UNCHANGED <<pc, ret, ls, reports, last_report, n_fp, dyn, bp_res,
                   tmp, value, bp_vars, cost_fn, exc, sqp, al>>

NextFp ==
    \/ forward_pass_call
    \/ forward_pass_earlier_call

(***************************************************************************)
(* auglag_update, called after each inner iteration                        *)
(***************************************************************************)
MaxOuterUpdates == 3

\* the data members of the augmented Lagrangian.  cost_rho is the rho that
\* the costs _auglag_cost[i] hold; updates counts the calls that have
\* returned true and lam_updates the calls of update_lam on each node;
\* u_cols, x_cols and lam_u_cols are the columns of _utrj, _xtrj and
\* _lam_bound_u that the latest call has accessed.
AuglagOf(enable, rho_initial, growth) ==
    [enable_auglag |-> enable, rho_initial |-> rho_initial, rho |-> rho_initial,
     rho_growth_factor |-> growth, merit_der_threshold_den |-> 1000,
     cost_rho |-> rho_initial,
     lam_bound_x |-> [k \in Nodes |-> 0], lam_bound_u |-> [k \in Nodes |-> 0],
     updates |-> 0, lam_updates |-> [k \in Nodes |-> 0],
     u_cols |-> {}, x_cols |-> {}, lam_u_cols |-> {}]

NoAuglag == al = AuglagOf(FALSE, 1, 2)

\* how far v is outside [lb, ub]
bound_violation_of(v, lb, ub) ==
    IF v > ub THEN v - ub ELSE IF v < lb THEN v - lb ELSE 0

\* update_lam: the multiplier estimate after an outer update
update_lam(lam, rho, v, lb, ub) == lam + rho * bound_violation_of(v, lb, ub)

\* a mutant of grow_rho: rho grows twice
grow_rho_twice(rho, factor) == rho * factor * factor

\* line 1364: _rho *= _rho_growth_factor
grow_rho(rho, factor) == rho * factor

\* lines 1349-1353: fabs(merit_der) > merit_der_threshold*(1 + merit) does
\* not hold; 1 is RatioDen in the units of the merit
merit_der_small(fp) ==
    ~(Abs(fp.merit_der) * al.merit_der_threshold_den > RatioDen + fp.merit)

\* lines 1343-1361: the three tests have not returned false
auglag_needed ==
    /\ al.enable_auglag
    /\ merit_der_small(fp_res)
    /\ ~(fp_res.bound_violation < opt.constraint_violation_threshold)

\* what _utrj.col(N), a column past the end of _utrj, can yield as the
\* violation of the input bounds
GarbageViolations == {0, 1}

\* lines 1367-1379 for the nodes below n: the multipliers after update_lam
\* on the columns of _xtrj and _utrj
lam_x_upto(n) ==
    [k \in Nodes |-> IF k < n
                     THEN update_lam(al.lam_bound_x[k], al.cost_rho,
                                     xtrj[k], x_lb[k], x_ub[k])
                     ELSE al.lam_bound_x[k]]

lam_u_upto(n) ==
    [k \in Nodes |-> IF k < n /\ k < NStages
                     THEN update_lam(al.lam_bound_u[k], al.cost_rho,
                                     utrj[k], u_lb[k], u_ub[k])
                     ELSE al.lam_bound_u[k]]

\* _lam_bound_u.lpNorm<1>() + _lam_bound_x.lpNorm<1>()
mu_b_of(lx, lu) ==
    SumTo([k \in Nodes |-> Abs(lx[k]) + Abs(lu[k])], NStages)

\* auglag_update.  The loop of lines 1367-1379 runs i up to N and reads
\* _utrj.col(N), which _utrj (N columns) does not have: the read is
\* undefined, and either aborts the run (an Eigen assertion) or yields
\* garbage.
auglag_update ==
    /\ pc = "al_call"
    /\ IF ~auglag_needed
       THEN /\ ret' = FALSE
            /\ pc' = "al_inner"
            /\ al' = [al EXCEPT !.u_cols = {}, !.x_cols = {}, !.lam_u_cols = {}]
            /\ UNCHANGED fp_res
       ELSE \/ /\ pc' = "al_abort"
               /\ al' = [al EXCEPT
                            !.rho = grow_rho(al.rho, al.rho_growth_factor),
                            !.lam_bound_x = lam_x_upto(NStages),
                            !.lam_bound_u = lam_u_upto(NStages),
                            !.lam_updates = [k \in Nodes |->
                                                IF k < NStages THEN @[k] + 1 ELSE @[k]],
                            !.cost_rho = grow_rho(al.rho, al.rho_growth_factor),
                            !.u_cols = 0 .. NStages,
                            !.x_cols = 0 .. NStages,
                            !.lam_u_cols = 0 .. (NStages - 1)]
               /\ UNCHANGED <<ret, fp_res>>
            \/ /\ \E g \in GarbageViolations :
                     LET lx == lam_x_upto(NStages + 1)
                         lu == [lam_u_upto(NStages) EXCEPT
                                   ![NStages] = @ + al.cost_rho * g]
                     IN /\ al' = [al EXCEPT
                                     !.rho = grow_rho(al.rho, al.rho_growth_factor),
                                     !.lam_bound_x = lx,
                                     !.lam_bound_u = lu,
                                     !.lam_updates = [k \in Nodes |-> @[k] + 1],
                                     !.cost_rho = grow_rho(al.rho, al.rho_growth_factor),
                                     !.updates = @ + 1,
                                     !.u_cols = 0 .. NStages,
                                     !.x_cols = 0 .. NStages,
                                     !.lam_u_cols = 0 .. NStages]
                        /\ fp_res' = [fp_res EXCEPT !.mu_b = mu_b_of(lx, lu)]
               /\ ret' = TRUE
               /\ pc' = "al_inner"
    /\ UNCHANGED <<xtrj, utrj, ls, reports, last_report, n_fp, dyn, bp_res, tmp, value,
                   bp_vars, cost_vars, sqp>>

\* the forward pass results that an inner iteration can leave
InnerOutcomes ==
    [merit_der : {-2000000, -1}, bound_violation : {0, 2}, step_length : {0, 5}]

\* an inner iteration of the solver between two calls of auglag_update: its
\* line search leaves a new forward pass result
auglag_inner_iteration ==
    /\ pc = "al_inner"
    /\ al.updates < MaxOuterUpdates
    /\ \E out \in InnerOutcomes :
          fp_res' = [fp_res EXCEPT !.merit_der = out.merit_der,
                                   !.bound_violation = out.bound_violation,
                                   !.step_length = out.step_length]
    /\ pc' = "al_call"
    /\ UNCHANGED <<ret, xtrj, utrj, ls, reports, last_report, n_fp, dyn, bp_res, tmp,
                   value, bp_vars, cost_vars, sqp, al>>

NextAuglag ==
    \/ auglag_update
    \/ auglag_inner_iteration

(***************************************************************************)
(* The states line_search and should_stop are called in.                   *)
(***************************************************************************)
ZeroX == [k \in Nodes |-> 0]
ZeroU == [i \in Stages |-> 0]

\* a forward pass result with the given cost, defect norm and constraint
\* violation whose candidate is the trajectory (xt, ut)
FpResOf(cost, dn, cv, xt, ut) ==
    [accepted |-> FALSE, alpha |-> 0, step_length |-> 0,
     cost |-> cost, defect_norm |-> dn, constraint_violation |-> cv,
     merit |-> 0, merit_der |-> 0, mu_f |-> 0, mu_c |-> 0,
     bound_violation |-> 0, mu_b |-> 0,
     xtrj |-> xt, utrj |-> ut]

NoReport == ReportPayload(FpResOf(0, 0, 0, ZeroX, ZeroU))

\* _tmp[i] with the input gradient hu, when no backward pass has run
TmpOf(hu) ==
    [hu |-> hu, hf_size |-> 0, x_used |-> "none",
     x_dec |-> [t \in {"Lu", "Qr", "Ldlt"} |-> "never"]]

\* _bp_res[i] as a backward pass leaves it; dx is the initial-state
\* correction and dx_lam the multipliers of the constraint-to-go at the
\* initial state: both are used at stage 0 only
BpResOf(i, Lu, lu, lz, glam, dx0) ==
    [Lu |-> Lu, lu |-> lu, lz |-> lz, glam |-> glam, Gu |-> 0, nc |-> 1,
     dx |-> IF i = 0 THEN dx0 ELSE 0, dx_lam |-> << >>]

LsLocals(iter) ==
    [iter |-> iter, alpha |-> 0, merit |-> 0, merit_der |-> 0, mu_f |-> 0, mu_c |-> 0]

\* line_search(iter) is entered after linearize_quadratize and backward_pass
InitLS ==
    /\ pc = "ls_begin"
    /\ ret = FALSE
    /\ xtrj = ZeroX
    /\ utrj = ZeroU
    /\ \E cv \in {0, 3} : fp_res = FpResOf(10, 0, cv, ZeroX, ZeroU)
    /\ \E iter \in {0, 1} : ls = LsLocals(iter)
    /\ reports = << >>
    /\ last_report = NoReport
    /\ n_fp = 0
    /\ \E d \in {0, 512} : dyn = [i \in Stages |-> [A |-> 1, B |-> 1, d |-> d]]
    /\ \E lu \in {0, 512}, lz \in {0, 100}, glam \in {0, 1}, dx0 \in {0, 512} :
          bp_res = [i \in Stages |-> BpResOf(i, 1, lu, lz, glam, dx0)]
    /\ \E hu \in {-200, -100, 0, 100} : tmp = [i \in Stages |-> TmpOf(hu)]
    /\ \E s \in {0, 1} : value = [k \in Nodes |-> [s |-> s, S_reg |-> 0]]
    /\ NoBackwardPass
    /\ NoCostCall
    /\ NoSqp
    /\ NoAuglag

SpecLS == InitLS /\ [][NextLS]_vars

\* line_search under the scheduling of a sequential program: a step that can
\* be taken is taken
FairSpecLS == InitLS /\ [][NextLS]_vars /\ WF_vars(NextLS)

(***************************************************************************)
(* should_stop, called on any forward pass result                          *)
(***************************************************************************)
should_stop_call ==
    /\ pc = "stop_call"
    /\ ret' = should_stop(fp_res, utrj)
    /\ pc' = "stop_done"
    /\ UNCHANGED <<xtrj, utrj, fp_res, ls, reports, last_report, n_fp, dyn, bp_res,
                   tmp, value>>
    /\ UNCHANGED <<bp_vars, cost_vars, sqp, al>>

NextStop == should_stop_call

InitStop ==
    /\ pc = "stop_call"
    /\ ret = FALSE
    /\ xtrj = ZeroX
    /\ \E u0 \in {0, RatioDen - 1, RatioDen, RatioDen + 1} :
          utrj = [i \in Stages |-> IF i = 0 THEN u0 ELSE 0]
    /\ \E dn \in {0, FeasTol, FeasTol + 1}, cv \in {0, FeasTol, FeasTol + 1},
          merit \in {-RatioDen, 0, 1, RatioDen - 1, RatioDen, RatioDen + 1},
          merit_der \in {-2, -1, 0, 1}, step_length \in {0, 1, 2} :
          fp_res = [FpResOf(10, dn, cv, ZeroX, utrj) EXCEPT
                       !.merit = merit, !.merit_der = merit_der,
                       !.step_length = step_length, !.accepted = TRUE]
    /\ ls = LsLocals(0)
    /\ reports = << >>
    /\ last_report = NoReport
    /\ n_fp = 0
    /\ dyn = [i \in Stages |-> [A |-> 1, B |-> 1, d |-> 0]]
    /\ bp_res = [i \in Stages |-> BpResOf(i, 0, 0, 0, 0, 0)]
    /\ tmp = [i \in Stages |-> TmpOf(0)]
    /\ value = [k \in Nodes |-> [s |-> 0, S_reg |-> 0]]
    /\ NoBackwardPass
    /\ NoCostCall
    /\ NoSqp
    /\ NoAuglag

SpecStop == InitStop /\ [][NextStop]_vars

(***************************************************************************)
(* The states backward_pass is called in                                   *)
(***************************************************************************)
\* the number of rows of the largest final constraint that fits
MaxFinalRows == 2

\* the final constraints: not set, 1 .. MaxFinalRows rows on the final
\* state, and c_max + 1 rows
FinalConstraints ==
    {NoConstraint}
    \cup {[is_valid |-> TRUE, rows |-> [j \in 1 .. n |-> Row(1, 0, 2)]] :
              n \in 1 .. MaxFinalRows}
    \cup {[is_valid |-> TRUE, rows |-> [j \in 1 .. (c_max + 1) |-> Row(0, 0, 0)]]}

\* the intermediate constraints: not set, one row on the state, one row on
\* the input
StageConstraints ==
    {NoConstraint,
     [is_valid |-> TRUE, rows |-> <<Row(1, 0, 2)>>],
     [is_valid |-> TRUE, rows |-> <<Row(0, 1, 2)>>]}

\* backward_pass is entered after linearize_quadratize.  The constraint-to-go
\* is empty or holds a row that the optimize_initial_state of the iteration
\* before has put back.  One stage has a KKT system that needs kkt_need to be
\* solved: stage N-1, or stage 0 of a problem without intermediate
\* constraints.  The input bounds of stage 0 are equal or not.  The
\* decomposition of the state KKT system is stale when an earlier
\* optimize_initial_state has computed it, which no call does for x_qr.
InitBP ==
    /\ pc = "bp_begin"
    /\ ret = FALSE
    /\ xtrj = ZeroX
    /\ utrj = ZeroU
    /\ fp_res = FpResOf(10, 0, 0, ZeroX, ZeroU)
    /\ ls = LsLocals(0)
    /\ reports = << >>
    /\ last_report = NoReport
    /\ n_fp = 0
    /\ bp_res = [i \in Stages |-> BpResOf(i, 0, 0, 0, 0, 0)]
    /\ value = [k \in Nodes |-> [s |-> 0, S_reg |-> 0]]
    /\ \E o \in {[hxx_reg_base |-> 0, constraint_violation_threshold |-> 2,
                  kkt_decomp_type |-> "Lu", huu_reg |-> 0],
                 [hxx_reg_base |-> 0, constraint_violation_threshold |-> 2,
                  kkt_decomp_type |-> "Qr", huu_reg |-> 0],
                 [hxx_reg_base |-> RegOne + 6, constraint_violation_threshold |-> 40,
                  kkt_decomp_type |-> "Ldlt", huu_reg |-> 0]} :
          /\ opt = o
          /\ hxx_reg = o.hxx_reg_base
    /\ ctg \in {<< >>, <<Row(1, 0, 40)>>}
    /\ tmp = [i \in Stages |->
                 [TmpOf(0) EXCEPT
                     !.x_dec = [t \in {"Lu", "Qr", "Ldlt"} |->
                                   IF i = 0 /\ t = opt.kkt_decomp_type /\ t # "Qr"
                                      /\ ctg # << >>
                                   THEN "stale" ELSE "never"]]]
    /\ \E fc \in FinalConstraints, sc \in StageConstraints :
          constraint = [k \in Nodes |-> IF k = NStages THEN fc ELSE sc]
    /\ \E lb0 \in {-8, 2}, lbN \in {-8, -2} :
          /\ x_lb = [k \in Nodes |-> IF k = 0 THEN lb0
                                     ELSE IF k = NStages THEN lbN ELSE -8]
          /\ x_ub = [k \in Nodes |-> IF k = 0 /\ lb0 = -8 THEN 8
                                     ELSE IF k = 0 THEN lb0
                                     ELSE IF k = NStages /\ lbN = -2 THEN -2 ELSE 8]
    /\ u_lb = [i \in Stages |-> -8]
    /\ \E B \in {0, 1} :
          /\ dyn = [i \in Stages |-> [A |-> 1, B |-> B, d |-> 0]]
          /\ \E ub0 \in (IF B = 0 THEN {-8, 8} ELSE {8}) :
                u_ub = [i \in Stages |-> IF i = 0 THEN ub0 ELSE 8]
          /\ \E n \in {0, IF B = 0 THEN RegInf ELSE RegOne + 6} :
             \E f \in (IF B = 1 /\ ctg = << >> /\ ~constraint[0].is_valid
                      THEN {0, NStages - 1} ELSE {NStages - 1}) :
                kkt_need = [i \in Stages |-> IF i = f THEN n ELSE 0]
    /\ bp_i = NStages
    /\ warned = FALSE
    /\ hc = << >>
    /\ NoCostCall
    /\ NoSqp
    /\ NoAuglag

SpecBP == InitBP /\ [][NextBP]_vars

\* the backward pass under the scheduling of a sequential program: a step
\* that can be taken is taken
FairSpecBP == InitBP /\ [][NextBP]_vars /\ WF_vars(NextBP)

(***************************************************************************)
(* The solver after construction, its setters being called                 *)
(***************************************************************************)
InitCost ==
    /\ pc = "idle"
    /\ ret = FALSE
    /\ xtrj = ZeroX
    /\ utrj = ZeroU
    /\ fp_res = FpResOf(0, 0, 0, ZeroX, ZeroU)
    /\ ls = LsLocals(0)
    /\ reports = << >>
    /\ last_report = NoReport
    /\ n_fp = 0
    /\ dyn = [i \in Stages |-> [A |-> 1, B |-> 1, d |-> 0]]
    /\ bp_res = [i \in Stages |-> BpResOf(i, 0, 0, 0, 0, 0)]
    /\ tmp = [i \in Stages |-> TmpOf(0)]
    /\ value = [k \in Nodes |-> [s |-> 0, S_reg |-> 0]]
    /\ NoBackwardPass
    /\ NoCostCall
    /\ NoSqp
    /\ NoAuglag

SpecCost == InitCost /\ [][NextCost]_vars

\* the solver with its options set: _hxx_reg_base is an option, and _hxx_reg
\* is what the constructor or an earlier solve has left, below
\* _hxx_reg_base or not
InitReg ==
    /\ pc = "reg_idle"
    /\ ret = FALSE
    /\ xtrj = ZeroX
    /\ utrj = ZeroU
    /\ fp_res = FpResOf(0, 0, 0, ZeroX, ZeroU)
    /\ ls = LsLocals(0)
    /\ reports = << >>
    /\ last_report = NoReport
    /\ n_fp = 0
    /\ dyn = [i \in Stages |-> [A |-> 1, B |-> 1, d |-> 0]]
    /\ bp_res = [i \in Stages |-> BpResOf(i, 0, 0, 0, 0, 0)]
    /\ tmp = [i \in Stages |-> TmpOf(0)]
    /\ value = [k \in Nodes |-> [s |-> 0, S_reg |-> 0]]
    /\ \E base \in {0, RegTiny - 1, RegOne, RegOne + 6} :
          opt = [hxx_reg_base |-> base, constraint_violation_threshold |-> 2,
                 kkt_decomp_type |-> "Lu", huu_reg |-> 0]
    /\ hxx_reg \in 0 .. (RegOne + 3)
    /\ ctg = << >>
    /\ constraint = [k \in Nodes |-> NoConstraint]
    /\ x_lb = [k \in Nodes |-> -8]
    /\ x_ub = [k \in Nodes |-> 8]
    /\ u_lb = [i \in Stages |-> -8]
    /\ u_ub = [i \in Stages |-> 8]
    /\ kkt_need = [i \in Stages |-> 0]
    /\ bp_i = NStages
    /\ warned = FALSE
    /\ hc = << >>
    /\ NoCostCall
    /\ NoSqp
    /\ NoAuglag

SpecReg == InitReg /\ [][NextReg]_vars

\* an SQPGaussNewton after its constructor, with max_iter from the options
InitSqp ==
    /\ pc = "sqp_idle"
    /\ \E max_iter \in 1 .. MaxIter : \E target \in {0, 2} : sqp = SqpOf(max_iter, target)
    /\ ret = FALSE
    /\ xtrj = ZeroX
    /\ utrj = ZeroU
    /\ fp_res = FpResOf(0, 0, 0, ZeroX, ZeroU)
    /\ ls = LsLocals(0)
    /\ reports = << >>
    /\ last_report = NoReport
    /\ n_fp = 0
    /\ dyn = [i \in Stages |-> [A |-> 1, B |-> 1, d |-> 0]]
    /\ bp_res = [i \in Stages |-> BpResOf(i, 0, 0, 0, 0, 0)]
    /\ tmp = [i \in Stages |-> TmpOf(0)]
    /\ value = [k \in Nodes |-> [s |-> 0, S_reg |-> 0]]
    /\ NoBackwardPass
    /\ NoCostCall
    /\ NoAuglag

SpecSqp == InitSqp /\ [][NextSqp]_vars

\* the solver with its bounds set and a trajectory: at every node the state
\* bounds are equal or not, at every stage the input bounds are equal or not
InitBound ==
    /\ pc = "bound_idle"
    /\ ret = FALSE
    /\ \E x \in {0, 1} : xtrj = [k \in Nodes |-> x]
    /\ \E u \in {0, 1} : utrj = [i \in Stages |-> u]
    /\ fp_res = FpResOf(0, 0, 0, ZeroX, ZeroU)
    /\ ls = LsLocals(0)
    /\ reports = << >>
    /\ last_report = NoReport
    /\ n_fp = 0
    /\ dyn = [i \in Stages |-> [A |-> 1, B |-> 1, d |-> 0]]
    /\ bp_res = [i \in Stages |-> BpResOf(i, 0, 0, 0, 0, 0)]
    /\ tmp = [i \in Stages |-> TmpOf(0)]
    /\ value = [k \in Nodes |-> [s |-> 0, S_reg |-> 0]]
    /\ hxx_reg = 0
    /\ opt = [hxx_reg_base |-> 0, constraint_violation_threshold |-> 2,
              kkt_decomp_type |-> "Lu", huu_reg |-> 0]
    /\ ctg \in {<< >>, <<Row(1, 0, 40)>>}
    /\ constraint = [k \in Nodes |-> NoConstraint]
    /\ \E eqx \in SUBSET Nodes :
          /\ x_lb = [k \in Nodes |-> IF k \in eqx THEN -2 ELSE -8]
          /\ x_ub = [k \in Nodes |-> IF k \in eqx THEN -2 ELSE 8]
    /\ \E equ \in SUBSET Stages :
          /\ u_lb = [i \in Stages |-> IF i \in equ THEN 4 ELSE -8]
          /\ u_ub = [i \in Stages |-> IF i \in equ THEN 4 ELSE 8]
    /\ kkt_need = [i \in Stages |-> 0]
    /\ bp_i = NStages
    /\ warned = FALSE
    /\ hc = << >>
    /\ NoCostCall
    /\ NoSqp
    /\ NoAuglag

SpecBound == InitBound /\ [][NextBound]_vars

\* a forward pass is entered after a backward pass, on any trajectory with
\* any defect; the candidate of the forward pass before is in _fp_res
InitFp ==
    /\ pc = "fp_idle"
    /\ ret = FALSE
    /\ \E x \in {0, 1024} : xtrj = [k \in Nodes |-> x]
    /\ utrj = ZeroU
    /\ \E x \in {0, 2048} : fp_res = FpResOf(10, 0, 0, [k \in Nodes |-> x], ZeroU)
    /\ ls = LsLocals(0)
    /\ reports = << >>
    /\ last_report = NoReport
    /\ n_fp = 0
    /\ \E d \in {0, 1024}, B \in {0, 1} :
          dyn = [i \in Stages |-> [A |-> 1, B |-> B, d |-> d]]
    /\ \E lu \in {0, 1024}, Lu \in {0, 1} :
          bp_res = [i \in Stages |-> BpResOf(i, Lu, lu, 0, 0, 0)]
    /\ tmp = [i \in Stages |-> TmpOf(0)]
    /\ value = [k \in Nodes |-> [s |-> 0, S_reg |-> 0]]
    /\ NoBackwardPass
    /\ NoCostCall
    /\ NoSqp
    /\ NoAuglag

SpecFp == InitFp /\ [][NextFp]_vars

\* the solver after an inner iteration, with its augmented Lagrangian
\* enabled or not; the trajectory is inside its bounds or outside them
InitAuglag ==
    /\ pc = "al_call"
    /\ ret = FALSE
    /\ \E x \in {0, 9} : xtrj = [k \in Nodes |-> x]
    /\ \E u \in {1, 9} : utrj = [i \in Stages |-> u]
    /\ \E out \in InnerOutcomes :
          fp_res = [FpResOf(10, 0, 0, ZeroX, ZeroU) EXCEPT
                       !.merit = 10,
                       !.merit_der = out.merit_der,
                       !.bound_violation = out.bound_violation,
                       !.step_length = out.step_length]
    /\ ls = LsLocals(0)
    /\ reports = << >>
    /\ last_report = NoReport
    /\ n_fp = 0
    /\ dyn = [i \in Stages |-> [A |-> 1, B |-> 1, d |-> 0]]
    /\ bp_res = [i \in Stages |-> BpResOf(i, 0, 0, 0, 0, 0)]
    /\ tmp = [i \in Stages |-> TmpOf(0)]
    /\ value = [k \in Nodes |-> [s |-> 0, S_reg |-> 0]]
    /\ NoBackwardPass
    /\ NoCostCall
    /\ NoSqp
    /\ \E enable \in BOOLEAN, rho_initial \in {1, 2}, growth \in {2, 3} :
          al = AuglagOf(enable, rho_initial, growth)

SpecAuglag == InitAuglag /\ [][NextAuglag]_vars

(***************************************************************************)
(* Properties of line_search                                               *)
(***************************************************************************)
\* the Armijo condition m(alpha) <= m(0) + 1e-4*alpha*m'(0) of the candidate
\* in fp_res, against the initial merit and slope of this line search
CandidateSatisfiesArmijo ==
    (fp_res.merit - ls.merit) * 10000 * 1024 <= fp_res.alpha * ls.merit_der

\* the alpha of the k-th attempt of a line search: 1, 1/2, 1/4, ...
AlphaOfAttempt(k) == AlphaOne \div (2 ^ (k - 1))

\* C1 as claimed: after line_search the committed step satisfies the Armijo
\* condition or was taken with alpha = alpha_min = 1e-3.
C1_ArmijoOrAlphaMin ==
    pc = "ls_done" =>
        \/ CandidateSatisfiesArmijo
        \/ fp_res.alpha * 1000 = AlphaOne

\* C1 amended: after line_search the committed step is the candidate of the
\* last forward pass, and it satisfies the Armijo condition or was taken with
\* alpha = 2^-9 = 0.001953125, the last alpha of 1, 1/2, 1/4, ... that is
\* not below alpha_min (the tenth attempt).
C1_ArmijoOrLastAlpha ==
    pc = "ls_done" =>
        /\ xtrj = fp_res.xtrj
        /\ utrj = fp_res.utrj
        /\ fp_res.alpha = AlphaOfAttempt(n_fp)
        /\ \/ CandidateSatisfiesArmijo
           \/ fp_res.alpha * 512 = AlphaOne

\* C1 witness: a line search has ended on its tenth attempt without Armijo
C1_Witness ==
    /\ pc = "ls_done"
    /\ ~CandidateSatisfiesArmijo
    /\ fp_res.alpha * 512 = AlphaOne
    /\ n_fp = 10

\* C2 as claimed: when no attempt satisfied Armijo, line_search commits the
\* candidate of the last alpha tried and the result that remains still says
\* that the step was not accepted.
C2_SoftAcceptKeepsNotAccepted ==
    (pc = "ls_done" /\ ~CandidateSatisfiesArmijo) =>
        /\ xtrj = fp_res.xtrj
        /\ utrj = fp_res.utrj
        /\ fp_res.accepted = FALSE

\* C2 amended: when no attempt satisfied Armijo, line_search commits the
\* candidate of the last alpha tried, and the result that remains has
\* accepted = true, as after a real accept; the non-acceptance is recorded
\* only in the report issued for that attempt inside the loop (accepted =
\* false), which a second report of the same attempt with accepted = true
\* follows.
C2_SoftAcceptSetsAccepted ==
    (pc = "ls_done" /\ ~CandidateSatisfiesArmijo) =>
        /\ xtrj = fp_res.xtrj
        /\ utrj = fp_res.utrj
        /\ fp_res.alpha = AlphaOfAttempt(n_fp)
        /\ fp_res.accepted = TRUE
        /\ Len(reports) >= 2
        /\ reports[Len(reports) - 1] =
              [attempt |-> n_fp, alpha |-> fp_res.alpha, accepted |-> FALSE]
        /\ reports[Len(reports)] =
              [attempt |-> n_fp, alpha |-> fp_res.alpha, accepted |-> TRUE]

\* C2 witness: a soft accept has been committed
C2_Witness ==
    /\ pc = "ls_done"
    /\ ~CandidateSatisfiesArmijo
    /\ xtrj = fp_res.xtrj
    /\ fp_res.accepted

\* C9 as claimed: the forward pass starts its rollout from x0 + dx0, dx0
\* being the initial-state correction of the preceding backward pass.
C9_RolloutStartsAtCorrectedState ==
    pc = "ls_report" => fp_res.xtrj[0] = xtrj[0] + bp_res[0].dx

\* the reports of attempt k, oldest first
ReportsOf(k) == SelectSeq(reports, LAMBDA r : r.attempt = k)

\* C10 as claimed: every forward pass of line_search is followed by exactly
\* one report, before the next attempt and before the commit; no attempt is
\* reported twice and no report is issued without a new attempt.
C10_ExactlyOneReportPerAttempt ==
    pc \in {"ls_while", "ls_after", "ls_commit", "ls_done"} =>
        /\ Len(reports) = n_fp
        /\ \A k \in 1 .. n_fp : reports[k].attempt = k

\* C10 amended: every forward pass of line_search is reported, with its
\* alpha, cost, defect norm and constraint violation, before the next attempt
\* starts and before the trajectory is committed; the reports come in the
\* order of the attempts.  Two more reports are issued without a new attempt:
\* in iteration 0 the current result is reported before the first attempt,
\* and after a soft accept the last attempt is reported a second time, with
\* accepted = true.
C10_ReportsPerAttempt ==
    LET pending == IF pc = "ls_report" THEN 1 ELSE 0
        soft == /\ pc \in {"ls_commit", "ls_done"}
                /\ ~CandidateSatisfiesArmijo
    IN /\ \A j \in 1 .. Len(reports) : reports[j].attempt \in 0 .. (n_fp - pending)
       /\ \A j \in 1 .. (Len(reports) - 1) :
             reports[j].attempt <= reports[j + 1].attempt
       /\ Len(ReportsOf(0)) = IF ls.iter = 0 /\ pc # "ls_begin" THEN 1 ELSE 0
       /\ \A k \in 1 .. (n_fp - pending) :
             /\ Len(ReportsOf(k)) = IF soft /\ k = n_fp THEN 2 ELSE 1
             /\ \A j \in 1 .. Len(ReportsOf(k)) :
                   ReportsOf(k)[j].alpha = AlphaOfAttempt(k)
             /\ ReportsOf(k)[1].accepted = (k = n_fp /\ ~soft /\ CandidateSatisfiesArmijo)
       /\ (Len(reports) > 0 /\ pc # "ls_report") =>
             last_report = ReportPayload(fp_res)

\* C10 witness: a line search of a later iteration has committed after three
\* attempts, each reported once
C10_Witness ==
    /\ pc = "ls_done"
    /\ ls.iter = 1
    /\ n_fp = 3
    /\ Len(reports) = 3

(***************************************************************************)
(* Properties of should_stop                                               *)
(***************************************************************************)
\* the stopping rule as specified, on the result should_stop was called on:
\* feasible, and |m'(0)| / |m(0)| < 1e-9 or step_length / ||u|| < 1e-9
\* (a quotient by zero is infinite or undefined, and not below 1e-9)
SpecifiedStop ==
    /\ fp_res.defect_norm <= 1000
    /\ fp_res.constraint_violation <= 1000
    /\ \/ /\ fp_res.merit # 0
          /\ Abs(fp_res.merit_der) * 1000000000 < Abs(fp_res.merit)
       \/ /\ norm(utrj) # 0
          /\ fp_res.step_length * 1000000000 < norm(utrj)

\* C3 as claimed: should_stop returns true exactly when the last forward pass
\* is feasible and |m'(0)| / |m(0)| < 1e-9 or step_length / ||u|| < 1e-9.
C3_StopsExactlyWhenSpecified ==
    pc = "stop_done" => (ret = SpecifiedStop)

\* C4: should_stop never returns true while the last forward pass has
\* defect_norm > 1e-6 or constraint_violation > 1e-6.
C4_NoStopWhileInfeasible ==
    (/\ pc = "stop_done"
     /\ \/ fp_res.defect_norm > 1000
        \/ fp_res.constraint_violation > 1000) => ret = FALSE

\* C4 witness: should_stop has returned false on a result that only the
\* defect norm keeps from stopping
C4_Witness ==
    /\ pc = "stop_done"
    /\ fp_res.defect_norm > 1000
    /\ fp_res.constraint_violation <= 1000
    /\ fp_res.merit_der = 0
    /\ fp_res.merit > 0
    /\ ret = FALSE

(***************************************************************************)
(* Properties of backward_pass                                             *)
(***************************************************************************)
\* C5 as claimed: backward_pass always terminates; when the KKT solution of
\* a stage stays non-finite whatever hxx_reg is, the retry succeeds in the
\* end or stops after a bounded number of retries, and never restarts for
\* ever.
C5_BackwardPassTerminates == <>(pc \in {"bp_done", "bp_abort"})

\* C6 as claimed: at the start of every backward pass and of every restart,
\* before stage N-1 is handled, the constraint-to-go holds exactly the rows
\* of the final constraint (none when it is not set) followed by the
\* bound-equality rows of node N; no row of an earlier or aborted pass
\* survives.
C6_ResetAtStart ==
    (pc = "bp_loop" /\ bp_i = NStages - 1) =>
        ctg = (IF constraint[NStages].is_valid THEN constraint[NStages].rows
               ELSE << >>)
              \o (IF x_lb[NStages] = x_ub[NStages]
                  THEN <<[C |-> 1, D |-> 0, h |-> xtrj[NStages] - x_lb[NStages]]>>
                  ELSE << >>)

\* C7 as claimed: during a backward pass the constraint-to-go never holds
\* more rows than its capacity of 10*nx rows (nx = 1).
C7_RowsWithinCapacity == Len(ctg) <= 10

\* the rows of the constraint-to-go whose residual |C*dx + h| is not below
\* constraint_violation_threshold, in their order
RowsNotBelowThreshold(rows, dx) ==
    SelectSeq(rows, LAMBDA r :
        Abs(r.C * dx + r.h) >= opt.constraint_violation_threshold)

C11_OnlyVectorsOfLengthN ==
    [][call'.op = "setIntermediateCost" =>
          IF Len(call'.arg) # NStages
          THEN exc' = "invalid_argument" /\ cost_fn' = cost_fn
          ELSE /\ exc' = "none"
               /\ \A i \in 0 .. (NStages - 1) : cost_fn'[i] = call'.arg[i + 1]
               /\ cost_fn'[NStages] = cost_fn[NStages]]_vars

\* C11 witness: a vector of N + 1 entries has been refused after a vector of
\* N entries had replaced the stage costs
C11_Witness ==
    /\ call.op = "setIntermediateCost"
    /\ Len(call.arg) = NStages + 1
    /\ exc = "invalid_argument"
    /\ \A i \in 0 .. (NStages - 1) : cost_fn[i] = "lb"
    /\ cost_fn[NStages] = "dfl_cost_final"

\* C12: the dictionary that solve returns is consistent: "f" is
\* 0.5*||f(x)||^2 and "g" is ||g(x)||_2 at the returned "x", after the
\* convergence break and after max_iter iterations alike
C12_SolutionIsConsistent ==
    pc = "sqp_done" =>
        /\ sqp.solution.f = half_sq_norm(sqp_f(sqp.solution.x))
        /\ sqp.solution.g = norm_2(sqp_g(sqp.solution.x))

\* C13: after any sequence of solve calls, the trajectory that
\* getVariableTrajectory returns shows the iterates of the most recent solve
\* only: behind its _iteration_to_solve + 1 iterates there is nothing but the
\* empty entries of the constructor
C13_OnlyTheMostRecentSolve ==
    pc = "sqp_done" =>
        \A j \in 1 .. Len(getVariableTrajectory) :
            j > sqp.iteration_to_solve + 1 => getVariableTrajectory[j] = 0

\* C14: a non-finite KKT solution at stage i makes backward_pass increase the
\* regularization once and start again: the gains and the value function of
\* stage i are as they were, the value function of node N is set again with
\* the new hxx_reg, and optimize_initial_state is reached only after all the
\* stages N-1 .. 0 have been processed with that hxx_reg
C14_RetryRestartsWholePass ==
    [][/\ (/\ pc = "bp_loop"
           /\ bp_i >= 0
           /\ pc' # "bp_overflow"
           /\ ~(kkt_need[bp_i] <= hxx_reg /\ hxx_reg < RegInf))
          => /\ pc' = "bp_begin"
             /\ hxx_reg' = increase_regularization(hxx_reg, opt.hxx_reg_base)
             /\ bp_res'[bp_i].Lu = bp_res[bp_i].Lu
             /\ bp_res'[bp_i].lu = bp_res[bp_i].lu
             /\ value'[bp_i] = value[bp_i]
       /\ (pc = "bp_begin" /\ pc' = "bp_loop")
          => value'[NStages].S_reg = hxx_reg /\ bp_i' = NStages - 1
       /\ pc' = "bp_check"
          => \A k \in Nodes : value'[k].S_reg = hxx_reg']_vars

\* C14 witness: the pass has ended after stage 0 had failed, stage N-1 and
\* stage 0 having both been processed again with the increased hxx_reg
C14_Witness ==
    /\ pc = "bp_done"
    /\ kkt_need[0] > opt.hxx_reg_base
    /\ hxx_reg > opt.hxx_reg_base
    /\ \A k \in Nodes : value[k].S_reg = hxx_reg

\* C15 (as stated): after a call of increase_regularization or of
\* reduce_regularization hxx_reg is at least hxx_reg_base, no call of
\* reduce_regularization raises hxx_reg, and no call of
\* increase_regularization lowers it
C15_ReduceNeverRaises ==
    [][/\ call'.op = "reduce_regularization"
          => hxx_reg' >= opt.hxx_reg_base /\ hxx_reg' <= hxx_reg
       /\ call'.op = "increase_regularization"
          => hxx_reg' >= opt.hxx_reg_base /\ hxx_reg' >= hxx_reg]_vars

\* C15 (amended): after a call of either hxx_reg is at least hxx_reg_base;
\* increase_regularization never lowers hxx_reg; reduce_regularization
\* does not raise an hxx_reg that was at least hxx_reg_base, and it raises
\* one that was below hxx_reg_base to hxx_reg_base
C15_ReduceRaisesOnlyToBase ==
    [][/\ call'.op = "reduce_regularization"
          => /\ hxx_reg' >= opt.hxx_reg_base
             /\ hxx_reg >= opt.hxx_reg_base => hxx_reg' <= hxx_reg
             /\ hxx_reg < opt.hxx_reg_base => hxx_reg' = opt.hxx_reg_base
       /\ call'.op = "increase_regularization"
          => hxx_reg' >= opt.hxx_reg_base /\ hxx_reg' >= hxx_reg]_vars

\* C15 witness: reduce_regularization has been called and has left hxx_reg
\* above an hxx_reg_base that is not negligible
C15_Witness ==
    /\ call.op = "reduce_regularization"
    /\ opt.hxx_reg_base = RegOne
    /\ hxx_reg = RegOne + 2

\* a step of backward_pass that catches HessianIndefinite and starts again
RetryStep == pc = "bp_loop" /\ bp_i >= 0 /\ pc' = "bp_begin"

\* hxx_reg multiplied by the growth factor, +inf at most
Grown(h) ==
    IF h + hxx_reg_growth_factor > RegInf THEN RegInf ELSE h + hxx_reg_growth_factor

\* C16 (as stated): with hxx_reg_base <= 1, the retry that finds a negligible
\* hxx_reg runs the backward pass with hxx_reg = 1.0, and every further retry
\* with the hxx_reg of the retry before multiplied by the growth factor
C16_FirstRetryWithOne ==
    [][(RetryStep /\ opt.hxx_reg_base <= RegOne)
          => /\ hxx_reg < RegTiny => hxx_reg' = RegOne
             /\ hxx_reg >= RegOne => hxx_reg' = Grown(hxx_reg)]_vars

\* C16 (amended): with hxx_reg_base <= 1, the retry that finds a negligible
\* hxx_reg runs the backward pass with hxx_reg = 1.0 * growth, and every
\* further retry with the hxx_reg of the retry before multiplied by the growth
\* factor: the k-th consecutive retry uses growth^k
C16_FirstRetryWithGrowth ==
    [][(RetryStep /\ opt.hxx_reg_base <= RegOne)
          => /\ hxx_reg < RegTiny => hxx_reg' = Grown(RegOne)
             /\ hxx_reg >= RegOne => hxx_reg' = Grown(hxx_reg)]_vars

\* C16 witness: the backward pass starts again after its second retry, from
\* hxx_reg = 0 and hxx_reg_base = 0, with hxx_reg = growth^2
C16_Witness ==
    /\ pc = "bp_begin"
    /\ bp_i < NStages
    /\ opt.hxx_reg_base = 0
    /\ hxx_reg = RegOne + 2 * hxx_reg_growth_factor

\* C17: a retry after a failed KKT solve raises the Huu shift huu_reg, as it
\* raises the Hxx shift hxx_reg
C17_RetryRaisesHuuReg ==
    [][RetryStep => opt'.huu_reg > opt.huu_reg]_vars

\* C18: line_search terminates, after at least one and at most 10 forward
\* passes; the k-th forward pass is run with alpha = 1/2^(k-1), which is not
\* below alpha_min = 1e-3; and no forward pass is run after one whose candidate
\* satisfies Armijo
C18_TerminatesWithinTenPasses ==
    /\ <>(pc = "ls_done")
    /\ [](n_fp <= 10)
    /\ [](pc = "ls_done" => n_fp >= 1)
    /\ [](pc = "ls_report" => /\ fp_res.alpha = AlphaOfAttempt(n_fp)
                              /\ fp_res.alpha * 1000 >= AlphaOne)
    /\ [][n_fp' # n_fp => /\ n_fp' = n_fp + 1
                          /\ n_fp >= 1 => ~CandidateSatisfiesArmijo]_vars
    /\ [][(pc = "ls_report" /\ CandidateSatisfiesArmijo) => pc' = "ls_after"]_vars

\* C18 witness: a line search has ended on its fourth forward pass, the first
\* whose candidate satisfies Armijo, run with alpha = 1/8
C18_Witness ==
    /\ pc = "ls_done"
    /\ n_fp = 4
    /\ CandidateSatisfiesArmijo
    /\ fp_res.alpha * 8 = AlphaOne

\* a turn of the loop of backward_pass in which handle_constraints has run
\* to its end
HandleConstraintsStep == pc = "bp_loop" /\ bp_i >= 0 /\ pc' # "bp_overflow"

\* the rows that stage i adds for its own constraint and for its equal bounds
OwnRows(i) == IF constraint[i].is_valid THEN Len(constraint[i].rows) ELSE 0
BoundRows(i) ==
    (IF ~(i = 0 /\ x_lb[0] = x_ub[0]) /\ x_lb[i] = x_ub[i] THEN 1 ELSE 0)
    + (IF u_lb[i] = u_ub[i] THEN 1 ELSE 0)

\* the rows of a sequence that are of the form 0 x + 0 = 0 up to 1e-9
Dropped(rows) ==
    SelectSeq(rows, LAMBDA r : Abs(r.h) < DropTolH /\ Abs(r.C) * DropTolCDen < 1)

\* C19: handle_constraints(i) conserves rows: nc is the number of the rows
\* received plus the own rows plus the bound rows of stage i; the feasible
\* block has rank rows, rank <= min(nc, nu); the rows pushed to stage i-1 and
\* the rows dropped are nc - rank together; so the rows pushed are at most
\* the rows received plus the rows added
C19_RowsConserved ==
    [][HandleConstraintsStep =>
          LET nc == Len(ctg) + OwnRows(bp_i) + BoundRows(bp_i)
              rank == tmp'[bp_i].hf_size
          IN /\ bp_res'[bp_i].nc = nc
             /\ rank >= 0 /\ rank <= nc /\ rank <= 1
             /\ Len(hc') = nc - rank
             /\ Len(ctg') + Len(Dropped(hc')) = nc - rank
             /\ Len(ctg') <= Len(ctg) + OwnRows(bp_i) + BoundRows(bp_i)]_vars

\* C19 witness: stage 0 has received a row, added a row of its own and a
\* bound row, found rank 1, dropped a row and pushed a row
C19_Witness ==
    /\ pc = "bp_loop"
    /\ bp_i = -1
    /\ constraint[0].is_valid
    /\ u_lb[0] = u_ub[0]
    /\ bp_res[0].nc = 3
    /\ tmp[0].hf_size = 1
    /\ Len(hc) = 2
    /\ Len(ctg) = 1

\* the rows of a sequence with a zero C part and a non-zero residual
ZeroCNonZeroH(rows) == SelectSeq(rows, LAMBDA r : r.C = 0 /\ r.h # 0)

\* C20 (as stated): handle_constraints pushes, in their order, the rows j of
\* Cinf, hinf that do not have both |hinf_j| < 1e-9 and |Cinf_j| < 1e-9, drops
\* the others, and drops no row with a zero C part and a non-zero residual
C20_NonZeroResidualNeverDropped ==
    [][HandleConstraintsStep =>
          /\ ctg' = SelectSeq(hc', LAMBDA r : ~(/\ Abs(r.h) < DropTolH
                                                /\ Abs(r.C) * DropTolCDen < 1))
          /\ ZeroCNonZeroH(ctg') = ZeroCNonZeroH(hc')]_vars

\* C20 (amended): handle_constraints pushes, in their order, the rows j of
\* Cinf, hinf that do not have both |hinf_j| < 1e-9 and |Cinf_j| < 1e-9, and
\* drops the others; a row with a zero C part is dropped when its residual is
\* below 1e-9 in absolute value, zero or not, and pushed otherwise
C20_DroppedBelowTolerance ==
    [][HandleConstraintsStep =>
          /\ ctg' = SelectSeq(hc', LAMBDA r : ~(/\ Abs(r.h) < DropTolH
                                                /\ Abs(r.C) * DropTolCDen < 1))
          /\ \A j \in 1 .. Len(hc') :
                hc'[j].C = 0 =>
                   ((\E k \in 1 .. Len(ctg') : ctg'[k] = hc'[j])
                       <=> Abs(hc'[j].h) >= DropTolH)]_vars

\* C20 witness: of the rows 0 x + 0.5e-9 = 0 and 0 x + 1e-9 = 0, in this
\* order, handle_constraints has dropped the first and pushed the second
C20_Witness ==
    /\ pc = "bp_loop"
    /\ hc = <<Row(0, 0, 1), Row(0, 0, 2)>>
    /\ ctg = <<Row(0, 0, 2)>>

(***************************************************************************)
(* Properties of add_bound_constraint                                      *)
(***************************************************************************)
\* C21: add_bound_constraint(k) appends a row x - x_lb = 0 (unit C, zero D)
\* when the state bounds of node k are equal, then a row u - u_lb = 0 (zero C,
\* unit D) when the input bounds of stage k are equal; no input row at k = N,
\* no state row at k = 0 when the initial state is fixed, no row for lb < ub
C21_OneRowPerEqualBound ==
    [][call'.op = "add_bound_constraint" =>
          LET k == call'.arg[1]
              xr == IF x_lb[k] = x_ub[k] /\ ~(k = 0 /\ x_lb[0] = x_ub[0])
                    THEN <<[C |-> 1, D |-> 0, h |-> xtrj[k] - x_lb[k]]>>
                    ELSE << >>
              ur == IF k < NStages /\ u_lb[k] = u_ub[k]
                    THEN <<[C |-> 0, D |-> 1, h |-> utrj[k] - u_lb[k]]>>
                    ELSE << >>
          IN ctg' = ctg \o xr \o ur]_vars

\* C21 witness: at node 1, with equal state bounds and equal input bounds,
\* a state row and an input row have been appended to the row that was there
C21_Witness ==
    /\ call = [op |-> "add_bound_constraint", arg |-> <<1>>]
    /\ ctg = <<Row(1, 0, 40), Row(1, 0, 3), Row(0, 1, -3)>>

(***************************************************************************)
(* Properties of optimize_initial_state                                    *)
(***************************************************************************)
\* the step of optimize_initial_state
OptimizeInitialStateStep == pc = "bp_loop" /\ bp_i < 0 /\ pc' # "bp_loop"

\* C22: with a fixed initial state, optimize_initial_state sets dx[0] to
\* x_lb(:,0) - x[0] and returns: no KKT system is solved, and the
\* constraint-to-go, the value function and the multiplier dx_lam are
\* unchanged
C22_FixedInitialStateOnlySetsDx ==
    [][OptimizeInitialStateStep /\ x_lb[0] = x_ub[0] =>
          /\ pc' = "bp_check"
          /\ bp_res' = [bp_res EXCEPT ![0].dx = x_lb[0] - xtrj[0]]
          /\ ctg' = ctg
          /\ value' = value
          /\ tmp' = tmp]_vars

\* C22 witness: optimize_initial_state has returned for a fixed initial
\* state that is not the current one, with a row in the constraint-to-go
C22_Witness ==
    /\ pc = "bp_check"
    /\ x_lb[0] = x_ub[0]
    /\ bp_res[0].dx = 2
    /\ Len(ctg) > 0
    /\ value[0].S_reg > 0

\* C23: in optimize_initial_state, for each of the decomposition types Lu, Qr
\* and Ldlt, the decomposition that solves the state KKT system holds the
\* factors of the matrix K of this call: never stale or never-computed ones
C23_FactorizationOfThisCall == tmp[0].x_used \in {"none", "K"}

\* C24: whenever optimize_initial_state has put a row back into the
\* constraint-to-go as unsatisfied, backward_pass has emitted the
\* infeasibility warning when it returns, whatever the value of
\* constraint_violation_threshold
C24_PutBackRowsAreWarned ==
    (pc = "bp_done" /\ x_lb[0] # x_ub[0] /\ Len(ctg) > 0) => warned

(***************************************************************************)
(* Properties of forward_pass                                              *)
(***************************************************************************)
\* C25: in every forward pass of the sources, stage i writes
\* u_new[i] = u[i] + alpha*l[i] + L[i]*dx[i] and
\* x_new[i+1] = x[i+1] + (A[i] + B[i]*L[i])*dx[i] + B[i]*alpha*l[i] + alpha*d[i]
\* with dx[i] = x_new[i] - x[i], so that the defect is scaled by alpha; with
\* l = 0 and d = 0 the candidate is the current trajectory
C25_DefectScaledByAlpha ==
    [][call'.op \in {"forward_pass", "forward_pass_earlier"} =>
          LET alpha == call'.arg[1]
              x_new == fp_res'.xtrj
              u_new == fp_res'.utrj
          IN /\ x_new[0] = xtrj[0]
             /\ \A i \in Stages :
                   LET dx == x_new[i] - xtrj[i]
                       L == bp_res[i].Lu
                       l == bp_res[i].lu
                   IN /\ u_new[i] = utrj[i] + (alpha * l) \div AlphaOne + L * dx
                      /\ x_new[i + 1] = xtrj[i + 1] + (dyn[i].A + dyn[i].B * L) * dx
                                           + dyn[i].B * ((alpha * l) \div AlphaOne)
                                           + (alpha * dyn[i].d) \div AlphaOne
             /\ (\A i \in Stages : bp_res[i].lu = 0 /\ dyn[i].d = 0) =>
                   (x_new = xtrj /\ u_new = utrj)]_vars

(***************************************************************************)
(* Properties of compute_merit_slope                                       *)
(***************************************************************************)
\* C26: the merit slope that line_search uses is the sum over the stages of
\* l[k]*hu[k] less mu_f*defect_norm and mu_c*constraint_violation, l[k]
\* being the feedforward step lu that the backward pass has written and hu[k]
\* its input gradient: no field that the backward pass does not write
\* enters the sum
C26_SlopeFromFeedforwardStep ==
    [][(pc = "ls_begin" /\ pc' = "ls_while") =>
          ls'.merit_der =
              SumTo([i \in Stages |-> (bp_res[i].lu * tmp[i].hu) \div AlphaOne],
                    NStages - 1)
              - ls'.mu_f * fp_res.defect_norm
              - ls'.mu_c * fp_res.constraint_violation]_vars

(***************************************************************************)
(* Properties of auglag_update                                             *)
(***************************************************************************)
\* a call of auglag_update that returns
AuglagReturns == pc = "al_call" /\ pc' = "al_inner"

\* the inner loop has converged: the step length is small, as in
\* should_stop, or the merit derivative is small
InnerLoopConverged ==
    \/ QuotientBelowTol(fp_res.step_length, norm(utrj))
    \/ Abs(fp_res.merit_der) * al.merit_der_threshold_den <= RatioDen + fp_res.merit

\* C27: with auglag enabled, auglag_update returns true exactly when the
\* inner loop has converged (small step length or small merit derivative) and
\* the bound violation is not below constraint_violation_threshold; with
\* auglag disabled it returns false
C27_UpdatesExactlyWhenConverged ==
    [][AuglagReturns =>
          (ret' = (/\ al.enable_auglag
                   /\ InnerLoopConverged
                   /\ fp_res.bound_violation >= opt.constraint_violation_threshold))]_vars

RECURSIVE Power(_, _)
Power(b, n) == IF n = 0 THEN 1 ELSE b * Power(b, n - 1)

\* C28: auglag_update leaves the trajectory as it is; a call that returns
\* false leaves rho, the bound multipliers and mu_b as they are; a call that
\* returns true multiplies rho by rho_growth once and calls update_lam on
\* every node, so that rho is rho_initial * rho_growth^k after k updates and
\* never decreases
C28_RhoGrowsOncePerUpdate ==
    [][pc = "al_call" =>
          /\ xtrj' = xtrj
          /\ utrj' = utrj
          /\ al'.rho >= al.rho
          /\ (AuglagReturns /\ ~ret') =>
                /\ al'.rho = al.rho
                /\ al'.lam_bound_x = al.lam_bound_x
                /\ al'.lam_bound_u = al.lam_bound_u
                /\ fp_res'.mu_b = fp_res.mu_b
          /\ (AuglagReturns /\ ret') =>
                /\ al'.rho = al.rho * al.rho_growth_factor
                /\ \A k \in Nodes : al'.lam_updates[k] = al.lam_updates[k] + 1
                /\ al'.updates = al.updates + 1
                /\ al'.rho = al.rho_initial * Power(al.rho_growth_factor, al'.updates)]_vars

\* C28 witness: two updates have grown rho from 2 to 18, with multipliers
\* that the second update has raised by the rho of the first
C28_Witness ==
    /\ pc = "al_inner"
    /\ ret
    /\ al.updates = 2
    /\ al.rho_initial = 2
    /\ al.rho = 18
    /\ al.lam_bound_x[0] = 8

\* C30: every column of the input trajectory and of the input multipliers
\* that is accessed is one of 0 .. N-1, and every column of the state
\* trajectory one of 0 .. N
C30_ColumnsWithinRange ==
    /\ al.u_cols \subseteq 0 .. (NStages - 1)
    /\ al.lam_u_cols \subseteq 0 .. (NStages - 1)
    /\ al.x_cols \subseteq 0 .. NStages

(***************************************************************************)
(* The order of the steps of backward_pass                                 *)
(***************************************************************************)
\* C29: a pass starts its loop at stage N-1 and each completed stage i is
\* followed by stage i-1, so that the stages N-1 .. 0 are processed once
\* each, in this order; stage i reads the value function of node i+1 as this
\* pass has written it, and writes that of node i only;
\* optimize_initial_state runs once, after stage 0, and the infeasibility
\* check after optimize_initial_state
C29_StagesInDescendingOrder ==
    [][/\ (pc # "bp_loop" /\ pc' = "bp_loop") =>
             /\ bp_i' = NStages - 1
             /\ value'[NStages].S_reg = hxx_reg'
       /\ (pc = "bp_loop" /\ pc' = "bp_loop") =>
             /\ bp_i \in Stages
             /\ bp_i' = bp_i - 1
             /\ value[bp_i + 1].S_reg = hxx_reg
             /\ value'[bp_i].S_reg = hxx_reg
             /\ \A k \in Nodes \ {bp_i} : value'[k] = value[k]
       /\ (pc # "bp_check" /\ pc' = "bp_check") =>
             /\ pc = "bp_loop"
             /\ bp_i = -1
             /\ value' = value
       /\ (pc # "bp_done" /\ pc' = "bp_done") => pc = "bp_check"
       /\ pc = "bp_check" => pc' \in {"bp_check", "bp_done"}
       /\ pc = "bp_done" => pc' = "bp_done"]_vars

\* C29 witness: a pass that follows a retry has completed with a free
\* initial state: every node holds a value function that was regularized
\* with the hxx_reg of this pass
C29_Witness ==
    /\ pc = "bp_done"
    /\ x_lb[0] # x_ub[0]
    /\ bp_i = -1
    /\ hxx_reg > opt.hxx_reg_base
    /\ \A k \in Nodes : value[k].S_reg = hxx_reg

====
